---- MODULE Spec2Model ----
(***************************************************************************)
(* rustyheads: a four-player Doppelkopf engine (src/src/main.rs).          *)
(*                                                                         *)
(* The module models the card and trick logic, the player state, the      *)
(* match/round orchestration and the minimax search of the computer        *)
(* players.  Vec<T> is a sequence (Rust index i is TLA+ index i + 1),      *)
(* seats are 0 .. NumPlayers - 1 as in the code.                           *)
(*                                                                         *)
(* Specifications:                                                         *)
(*   Spec       one match of a game, from Game::new and add_player to the  *)
(*              winner of the match                                        *)
(*   SpecFair   Spec as a sequential program that runs on while it can     *)
(*   SpecGame   a game of several matches, Game::play_game                 *)
(*   SpecTrick  winning_card, determine_winner, filter_possible_cards, the  *)
(*              next player and the rank lookup of the search applied to   *)
(*              bounded inputs                                             *)
(*   SpecSearch ComputerPlayer::choose_card at a position of the first     *)
(*              trick, the loops of minimax_broad and minimax step by step *)
(*   SpecTeam   the election of the match type, get_team_for_player and    *)
(*              Match::determine_winner applied to bounded inputs          *)
(*   SpecRedist redistribute_unknown_cards at a position of the first      *)
(*              trick                                                      *)
(*   SpecCatalog the calls of DeckBuff and rules::get_deck_for_matchtype   *)
(*              for every deck type and match type                         *)
(*   SpecConfig Game::new followed by calls of Game::play_game, the        *)
(*              matches counted                                            *)
(***************************************************************************)
EXTENDS Integers, Sequences, FiniteSets, Bags, TLC

VARIABLES
    game,     \* Game: deck_type, the type of each player, n_matches, the number
              \* of matches played, the exchanges a shuffle may make, deck_buff
    players,  \* Game::players: seat -> Player
    match,    \* Match, with the local last_round_winner of play_match
    round,    \* the Round being played
    pc,       \* where play_match stands
    hist,     \* history: the deck as dealt, the last card play, the catalog
              \* reads; in SpecConfig the calls of play_game and its loop index
    trk,      \* trick logic: the input handed to a function and its result
    sim       \* simulation: the locals of choose_card, simulate, minimax_broad
              \* and minimax while a search runs, and the scores minimax
              \* returned for the candidates so far

vars == <<game, players, match, round, pc, hist, trk, sim>>

(***************************************************************************)
(* Bounds of the model.                                                    *)
(***************************************************************************)
\* ranks of the Card values handed to winning_card range over 1 .. MaxRank
MaxRank == 2

\* a shuffle exchanges at most MaxSwaps pairs of cards of the deck
MaxSwaps == 2

\* exchanges a shuffle makes in the deals the search is applied to
SearchSwaps == 1
\* the number of matches of a game is at most MaxMatches
MaxMatches == 3
\* a shuffle of a game of several matches makes at most GameSwaps exchanges
GameSwaps == 1
\* filter_possible_cards is given tricks of at most MaxOpen cards and hands of
\* at most MaxHand cards
MaxOpen == 2
MaxHand == 3

(***************************************************************************)
(* Program constants.                                                      *)
(***************************************************************************)
\* main adds four players to the game
NumPlayers == 4

\* Option::None of determine_winner (empty trick)
NoWinner == -1
\* panic!("Invalid card configuration") of determine_winner
InvalidConfig == -2

Suits == {"Hearts", "Diamonds", "Clubs", "Spades"}

Seats == 0 .. (NumPlayers - 1)

(***************************************************************************)
(* Card                                                                    *)
(***************************************************************************)
Card(suit, face, eyes, trump, rank) ==
    [suit |-> suit, face |-> face, eyes |-> eyes, trump |-> trump, rank |-> rank]

\* PartialOrd for Card: self < other compares the ranks
card_lt(self, other) == self.rank < other.rank

\* PartialEq for Card: equal iff the ranks are equal
card_eq(self, other) == self.rank = other.rank

\* Card::serves_this
serves_this(self, other) ==
    \/ (self.trump /\ other.trump)
    \/ (~self.trump /\ ~other.trump /\ self.suit = other.suit)

winning_card_ties_to_other(self, first_card, other) ==
    LET i_srv == serves_this(first_card, self)
        o_srv == serves_this(first_card, other)
        slto  == self.rank <= other.rank
    IN  IF ~i_srv /\ ~o_srv THEN "FirstWins"
        ELSE IF \/ (~i_srv /\ o_srv /\ self.trump /\ ~other.trump)
                \/ (i_srv /\ ~o_srv /\ ~other.trump)
                \/ (i_srv /\ o_srv /\ ~slto /\ ~self.trump /\ ~other.trump)
                \/ (i_srv /\ o_srv /\ ~slto /\ self.trump /\ other.trump)
        THEN "SelfWins"
        ELSE IF \/ (~i_srv /\ o_srv /\ ~self.trump)
                \/ (i_srv /\ ~o_srv /\ ~self.trump /\ other.trump)
                \/ (i_srv /\ o_srv /\ slto /\ ~self.trump /\ ~other.trump)
                \/ (i_srv /\ o_srv /\ slto /\ self.trump /\ other.trump)
        THEN "OtherWins"
        ELSE "None"

winning_card_server_always_wins(self, first_card, other) ==
    LET i_srv == serves_this(first_card, self)
        o_srv == serves_this(first_card, other)
        slto  == card_lt(self, other)
    IN  IF ~i_srv /\ ~o_srv THEN "FirstWins"
        ELSE IF \/ (~i_srv /\ o_srv /\ self.trump /\ ~other.trump)
                \/ (i_srv /\ ~o_srv)
                \/ (i_srv /\ o_srv /\ ~slto /\ ~self.trump /\ ~other.trump)
                \/ (i_srv /\ o_srv /\ ~slto /\ self.trump /\ other.trump)
        THEN "SelfWins"
        ELSE IF \/ (~i_srv /\ o_srv /\ ~self.trump)
                \/ (i_srv /\ o_srv /\ slto /\ ~self.trump /\ ~other.trump)
                \/ (i_srv /\ o_srv /\ slto /\ self.trump /\ other.trump)
        THEN "OtherWins"
        ELSE "None"

\* Card::winning_card: self is the card winning so far, other the challenger.
\* Option<WinningCard>: "None" is the configuration the table calls NotPossible.
winning_card_without_trumping(self, first_card, other) ==
    LET i_srv == serves_this(first_card, self)
        o_srv == serves_this(first_card, other)
        slto  == card_lt(self, other)
    IN  IF ~i_srv /\ ~o_srv THEN "FirstWins"
        ELSE IF \/ (~i_srv /\ o_srv /\ self.trump /\ ~other.trump)
                \/ (i_srv /\ ~o_srv /\ ~other.trump)
                \/ (i_srv /\ o_srv /\ ~slto /\ ~self.trump /\ ~other.trump)
                \/ (i_srv /\ o_srv /\ ~slto /\ self.trump /\ other.trump)
        THEN "SelfWins"
        ELSE IF \/ (~i_srv /\ o_srv /\ ~self.trump)
                \/ (i_srv /\ o_srv /\ slto /\ ~self.trump /\ ~other.trump)
                \/ (i_srv /\ o_srv /\ slto /\ self.trump /\ other.trump)
        THEN "OtherWins"
        ELSE "None"

winning_card(self, first_card, other) ==
    LET i_srv == serves_this(first_card, self)
        o_srv == serves_this(first_card, other)
        slto  == card_lt(self, other)
    IN  IF ~i_srv /\ ~o_srv THEN "FirstWins"
        ELSE IF \/ (~i_srv /\ o_srv /\ self.trump /\ ~other.trump)
                \/ (i_srv /\ ~o_srv /\ ~other.trump)
                \/ (i_srv /\ o_srv /\ ~slto /\ ~self.trump /\ ~other.trump)
                \/ (i_srv /\ o_srv /\ ~slto /\ self.trump /\ other.trump)
        THEN "SelfWins"
        ELSE IF \/ (~i_srv /\ o_srv /\ ~self.trump)
                \/ (i_srv /\ ~o_srv /\ ~self.trump /\ other.trump)
                \/ (i_srv /\ o_srv /\ slto /\ ~self.trump /\ ~other.trump)
                \/ (i_srv /\ o_srv /\ slto /\ self.trump /\ other.trump)
        THEN "OtherWins"
        ELSE "None"

(***************************************************************************)
(* Round::determine_winner                                                 *)
(***************************************************************************)
\* the loop `for i in 1..played_cards.len()`: i and winner are Rust indices
RECURSIVE winner_loop(_, _, _)
winner_loop(played_cards, i, winner) ==
    IF i >= Len(played_cards) THEN winner
    ELSE LET r == winning_card(played_cards[winner + 1], played_cards[1],
                               played_cards[i + 1])
         IN  IF r = "None" THEN InvalidConfig
             ELSE winner_loop(played_cards, i + 1,
                              IF r = "OtherWins" THEN i ELSE winner)

determine_winner_no_offset(played_cards, starting_player) ==
    IF Len(played_cards) = 0 THEN NoWinner
    ELSE winner_loop(played_cards, 1, 0)

determine_winner(played_cards, starting_player) ==
    IF Len(played_cards) = 0 THEN NoWinner
    ELSE LET winner == winner_loop(played_cards, 1, 0)
         IN  IF winner = InvalidConfig THEN InvalidConfig
             ELSE (starting_player + winner) % Len(played_cards)

(***************************************************************************)
(* Rule catalog.  The catalog is the SQLite file rules::DB_FILE; the rows  *)
(* below stand for its relations cards, cards_per_deck, cards_per_rule and *)
(* eyes_per_face, cut down to a deck that four players can play out.       *)
(* Ranks are unique per (suit, face) and run from 1 without gaps.          *)
(***************************************************************************)
\* ToSql for DeckType and MatchType: the ordinals stored in the catalog
DeckTypeOrd(deck_type) ==
    CASE deck_type = "Tournament" -> 1
      [] deck_type = "WithNines"  -> 2

MatchTypeOrd(match_type) ==
    CASE match_type = "Normal"     -> 1
      [] match_type = "JackSolo"   -> 2
      [] match_type = "QueenSolo"  -> 3
      [] match_type = "BestSolo"   -> 4
      [] match_type = "HeartsSolo" -> 5
      [] match_type = "SpadesSolo" -> 6
      [] match_type = "CrossSolo"  -> 7
      [] match_type = "Fleshless"  -> 8

\* rows of cards JOIN cards_per_deck for one deck type ordinal, in row order
CardsPerDeck(deck_ord) ==
    CASE deck_ord = 1 ->
            << [suit |-> "Hearts",   face |-> "King"],
               [suit |-> "Spades",   face |-> "Ace"],
               [suit |-> "Diamonds", face |-> "Jack"],
               [suit |-> "Clubs",    face |-> "Queen"] >>
      [] deck_ord = 2 ->
            << [suit |-> "Hearts",   face |-> "Nine"],
               [suit |-> "Hearts",   face |-> "King"],
               [suit |-> "Spades",   face |-> "Nine"],
               [suit |-> "Spades",   face |-> "Ace"],
               [suit |-> "Diamonds", face |-> "Jack"],
               [suit |-> "Clubs",    face |-> "Queen"] >>
      [] OTHER -> << >>

\* eyes_per_face
EyesPerFace(face) ==
    CASE face = "Ace"   -> 11
      [] face = "Ten"   -> 10
      [] face = "King"  -> 4
      [] face = "Queen" -> 3
      [] face = "Jack"  -> 2
      [] OTHER          -> 0

\* cards_per_rule: the trump flag per match type ordinal
\* (1 Normal: queens, jacks and diamonds; 2 JackSolo: jacks; 3 QueenSolo: queens)
TrumpPerRule(match_ord, row) ==
    CASE match_ord = 1 -> row.face \in {"Queen", "Jack"} \/ row.suit = "Diamonds"
      [] match_ord = 2 -> row.face = "Jack"
      [] match_ord = 3 -> row.face = "Queen"
      [] OTHER         -> FALSE

\* rows of the join of get_deck_for_matchtype for (deck type ordinal, match type
\* ordinal): every card of the deck with eyes, trump and rank.  Non-trumps rank
\* below trumps, each group in row order, so ranks are 1 .. number of rows.
CatalogRows(deck_ord, match_ord) ==
    LET rows   == CardsPerDeck(deck_ord)
        known  == match_ord \in 1 .. 3
        isT(i) == TrumpPerRule(match_ord, rows[i])
        nPlain == Cardinality({i \in 1 .. Len(rows) : ~isT(i)})
        rk(i)  == IF isT(i)
                  THEN nPlain + Cardinality({j \in 1 .. i : isT(j)})
                  ELSE Cardinality({j \in 1 .. i : ~isT(j)})
    IN  IF ~known THEN << >>
        ELSE [i \in 1 .. Len(rows) |->
                Card(rows[i].suit, rows[i].face, EyesPerFace(rows[i].face),
                     isT(i), rk(i))]

(***************************************************************************)
(* Sequence helpers for Vec operations.                                    *)
(***************************************************************************)
\* Vec::pop / truncation by one
Front(s) == SubSeq(s, 1, Len(s) - 1)

\* Vec::swap_remove(i) with the TLA+ index i: the last element takes the place
SwapRemove(s, i) ==
    [k \in 1 .. (Len(s) - 1) |-> IF k = i THEN s[Len(s)] ELSE s[k]]

\* iter().position(..): the first TLA+ index whose element has the rank, 0 if none
RankPosition(hand, rank) ==
    IF \E i \in 1 .. Len(hand) : hand[i].rank = rank
    THEN CHOOSE i \in 1 .. Len(hand) :
            /\ hand[i].rank = rank
            /\ \A j \in 1 .. (i - 1) : hand[j].rank # rank
    ELSE 0

\* cards.sort(): stable, ascending by rank (Ord for Card)
RECURSIVE sort_cards(_)
sort_cards(cards) ==
    IF Len(cards) <= 1 THEN cards
    ELSE LET rest == sort_cards(Front(cards))
             c    == cards[Len(cards)]
             k    == Cardinality({i \in 1 .. Len(rest) : rest[i].rank <= c.rank})
         IN  SubSeq(rest, 1, k) \o <<c>> \o SubSeq(rest, k + 1, Len(rest))

\* Vec::dedup(): drops an element equal (by rank) to the one before it
RECURSIVE dedup_cards(_)
dedup_cards(cards) ==
    IF Len(cards) <= 1 THEN cards
    ELSE LET rest == dedup_cards(Front(cards))
             c    == cards[Len(cards)]
         IN  IF card_eq(rest[Len(rest)], c) THEN rest ELSE Append(rest, c)

\* each row pushed twice: cards.push(card); cards.push(card.clone())
Doubled(rows) == [i \in 1 .. (2 * Len(rows)) |-> rows[(i + 1) \div 2]]

(***************************************************************************)
(* rules and DeckBuff                                                      *)
(***************************************************************************)
\* rules::get_deck_for_decktype: the deck skeleton, every card twice, all with
\* eyes 0, trump false, rank 0 (the sort by rank keeps the row order)
get_deck_for_decktype(deck_type) ==
    LET rows == CardsPerDeck(DeckTypeOrd(deck_type))
    IN  sort_cards(Doubled([i \in 1 .. Len(rows) |->
                              Card(rows[i].suit, rows[i].face, 0, FALSE, 0)]))

\* rules::get_deck_for_matchtype: params![match_type, deck_type] binds ?1 to the
\* match type and ?2 to the deck type, while the query compares
\* cpd.deck_type = ?1 and cpr.match_type = ?2
get_deck_for_matchtype(match_type, deck_type) ==
    sort_cards(Doubled(CatalogRows(MatchTypeOrd(match_type), DeckTypeOrd(deck_type))))

\* DeckBuff::get_deck, the deck returned on a buffer that has not the deck type
get_deck(deck_type) == get_deck_for_decktype(deck_type)

\* DeckBuff::get_card_values as play_match calls it: the deck handed in has been
\* dealt out and is empty, so is_in_buffer is false and the catalog is read
get_card_values(deck, match_type, deck_type) ==
    get_deck_for_matchtype(match_type, deck_type)

\* DeckBuff::new: both HashMaps empty (a HashMap is a function on its keys)
NewDeckBuff == [deck_map |-> << >>, card_value_map |-> << >>]

\* HashMap::insert
MapInsert(map, key, value) ==
    [k \in DOMAIN map \cup {key} |-> IF k = key THEN value ELSE map[k]]

\* the (suit, face) pairs kept in deck_map for a deck
deck_skeleton(deck) ==
    [i \in 1 .. Len(deck) |-> [suit |-> deck[i].suit, face |-> deck[i].face]]

\* DeckBuff::get_deck with the buffer as state: the deck returned, the buffer
\* afterwards, and whether rules::get_deck_for_decktype was called
buffered_get_deck(deck_buff, deck_type) ==
    IF deck_type \in DOMAIN deck_buff.deck_map
    THEN [deck |-> [i \in 1 .. Len(deck_buff.deck_map[deck_type]) |->
                      Card(deck_buff.deck_map[deck_type][i].suit,
                           deck_buff.deck_map[deck_type][i].face, 0, FALSE, 0)],
          deck_buff |-> deck_buff, read |-> FALSE]
    ELSE [deck |-> get_deck_for_decktype(deck_type),
          deck_buff |-> [deck_buff EXCEPT !.deck_map =
                            MapInsert(@, deck_type,
                                      deck_skeleton(get_deck_for_decktype(deck_type)))],
          read |-> TRUE]

\* CardValueKey of a card for a match type
CardValueKey(match_type, c) ==
    [match_type |-> match_type, suit |-> c.suit, face |-> c.face]

\* the loop `for c in d.iter_mut()` when every card is found in the buffer
buffered_values(card_value_map, deck, match_type) ==
    [i \in 1 .. Len(deck) |->
        LET cv == card_value_map[CardValueKey(match_type, deck[i])]
        IN  Card(deck[i].suit, deck[i].face, cv.eyes, cv.trump, cv.rank)]

\* `new_deck.iter().for_each(|c| self.card_value_map.insert(..))`
RECURSIVE insert_values(_, _, _)
insert_values(card_value_map, new_deck, match_type) ==
    IF Len(new_deck) = 0 THEN card_value_map
    ELSE MapInsert(insert_values(card_value_map, Front(new_deck), match_type),
                   CardValueKey(match_type, new_deck[Len(new_deck)]),
                   [eyes  |-> new_deck[Len(new_deck)].eyes,
                    trump |-> new_deck[Len(new_deck)].trump,
                    rank  |-> new_deck[Len(new_deck)].rank])

\* `let mut is_in_buffer = d.len() > 0` and the loop that clears it at the
\* first card without a buffered value
is_in_buffer(card_value_map, deck, match_type) ==
    /\ Len(deck) > 0
    /\ \A i \in 1 .. Len(deck) :
          CardValueKey(match_type, deck[i]) \in DOMAIN card_value_map

\* DeckBuff::get_card_values with the buffer as state: the deck returned, the
\* buffer afterwards, and whether rules::get_deck_for_matchtype was called
buffered_get_card_values(deck_buff, deck, match_type, deck_type) ==
    IF is_in_buffer(deck_buff.card_value_map, deck, match_type)
    THEN [deck |-> buffered_values(deck_buff.card_value_map, deck, match_type),
          deck_buff |-> deck_buff, read |-> FALSE]
    ELSE [deck |-> get_deck_for_matchtype(match_type, deck_type),
          deck_buff |-> [deck_buff EXCEPT !.card_value_map =
                            insert_values(@, get_deck_for_matchtype(match_type,
                                                                    deck_type),
                                          match_type)],
          read |-> TRUE]

(***************************************************************************)
(* Player state                                                            *)
(***************************************************************************)
SERVE_FLAG_ALL == 31

flag_for_card_by_suit(c) ==
    CASE c.suit = "Hearts"   -> 1
      [] c.suit = "Diamonds" -> 2
      [] c.suit = "Clubs"    -> 4
      [] c.suit = "Spades"   -> 8

\* ServeFlag::flag_for_card as ServeFlagType
flag_for_card(c) ==
    IF c.trump THEN 16
    ELSE CASE c.suit = "Hearts"   -> 1
           [] c.suit = "Diamonds" -> 2
           [] c.suit = "Clubs"    -> 4
           [] c.suit = "Spades"   -> 8

\* flags & flag != 0
FlagSet(flags, flag) == (flags \div flag) % 2 = 1

FlagToggle(flags, flag) == IF FlagSet(flags, flag) THEN flags - flag ELSE flags + flag

\* flags & !flag
FlagClear(flags, flag) == IF FlagSet(flags, flag) THEN flags - flag ELSE flags

\* Player::new
NewPlayer(dealer) ==
    [hand |-> << >>, won_cards |-> << >>, team |-> "Contra", dealer |-> dealer,
     beginner |-> FALSE, serve_flags |-> SERVE_FLAG_ALL]

\* PlayerBehav::remove_card_from_hand: the hand afterwards (unchanged if the
\* rank is not in the hand, where the code returns None)
remove_card_from_hand(hand, card) ==
    LET i == RankPosition(hand, card.rank)
    IN  IF i = 0 THEN hand ELSE SwapRemove(hand, i)

\* the card remove_card_from_hand returns (only used where one is found)
removed_card(hand, card) == hand[RankPosition(hand, card.rank)]

\* the bit of the card played is cleared instead of the bit of the first card
update_serve_flags_of_own_card(serve_flags, played_cards, card) ==
    IF Len(played_cards) > 0 /\ ~serves_this(card, played_cards[1])
    THEN FlagClear(serve_flags, flag_for_card(card))
    ELSE serve_flags

\* PlayerBehav::update_serve_flags
update_serve_flags(serve_flags, played_cards, card) ==
    IF Len(played_cards) > 0 /\ ~serves_this(card, played_cards[1])
    THEN FlagClear(serve_flags, flag_for_card(played_cards[1]))
    ELSE serve_flags

\* position of the (suit, face) in the deck, 0 if none
DeckPosition(deck, card) ==
    IF \E i \in 1 .. Len(deck) : deck[i].face = card.face /\ deck[i].suit = card.suit
    THEN CHOOSE i \in 1 .. Len(deck) :
            /\ deck[i].face = card.face /\ deck[i].suit = card.suit
            /\ \A j \in 1 .. (i - 1) :
                  ~(deck[j].face = card.face /\ deck[j].suit = card.suit)
    ELSE 0

\* PlayerBehav::update_hand_values panics: expect("Card not found in deck")
hand_values_missing(hand, deck) ==
    \E k \in 1 .. Len(hand) : DeckPosition(deck, hand[k]) = 0

\* PlayerBehav::update_hand_values
update_hand_values(hand, deck) ==
    [k \in 1 .. Len(hand) |->
        LET d == deck[DeckPosition(deck, hand[k])]
        IN  [hand[k] EXCEPT !.rank = d.rank, !.trump = d.trump, !.eyes = d.eyes]]

get_team_for_player_first_card(hand, match_type) ==
    IF match_type = "Normal"
    THEN IF Len(hand) > 0 /\ hand[1].face = "Queen" /\ hand[1].suit = "Clubs"
         THEN "Re" ELSE "Contra"
    ELSE "Contra"

\* get_team_for_player
get_team_for_player(hand, match_type) ==
    IF match_type = "Normal"
    THEN IF \E k \in 1 .. Len(hand) : hand[k].face = "Queen" /\ hand[k].suit = "Clubs"
         THEN "Re" ELSE "Contra"
    ELSE "Contra"

RECURSIVE SumEyes(_)
SumEyes(cards) ==
    IF Len(cards) = 0 THEN 0 ELSE cards[Len(cards)].eyes + SumEyes(Front(cards))

get_eye_score_counts_cards(player) == Len(player.won_cards)

\* PlayerBehav::get_eye_score
get_eye_score(player) == SumEyes(player.won_cards)

filter_possible_cards_whole_hand(played_cards, hand) == hand

filter_possible_cards_empty_if_void(played_cards, hand) ==
    IF Len(played_cards) = 0 THEN hand
    ELSE SelectSeq(hand, LAMBDA c : serves_this(c, played_cards[1]))

\* Round::filter_possible_cards
filter_possible_cards(played_cards, hand) ==
    IF Len(played_cards) = 0 THEN hand
    ELSE LET possible_cards == SelectSeq(hand, LAMBDA c : serves_this(c, played_cards[1]))
         IN  IF Len(possible_cards) = 0 THEN hand ELSE possible_cards

(***************************************************************************)
(* simulation: the search of the computer player.                          *)
(*                                                                         *)
(* A search state is [nodes, hands, status, score]: the node stack, the    *)
(* hands of the simulated players, and how the loop of minimax stands      *)
(* ("run", "ret" with the returned score, or the panic it ended in).  The  *)
(* teams of the simulated players never change during a search and are     *)
(* passed as `team`, a function of the seat.                               *)
(***************************************************************************)
I32_MIN == -2147483647 - 1
I32_MAX == 2147483647

\* the depth the computer player searches to (the literal 8 of choose_card)
SearchDepth == 8

\* simulation::get_initial_score_for_team
get_initial_score_for_team(team) == IF team = "Re" THEN I32_MIN ELSE I32_MAX

\* the later of two equal scores replaces the optimum
get_score_for_team_last_wins(old_optimum, new_score, optimum_rank, new_rank, team) ==
    IF team = "Re"
    THEN IF new_score >= old_optimum THEN <<new_rank, new_score>>
                                     ELSE <<optimum_rank, old_optimum>>
    ELSE IF new_score <= old_optimum THEN <<new_rank, new_score>>
                                     ELSE <<optimum_rank, old_optimum>>

\* simulation::get_score_for_team: <<rank, score>>
get_score_for_team(old_optimum, new_score, optimum_rank, new_rank, team) ==
    IF team = "Re"
    THEN IF new_score > old_optimum THEN <<new_rank, new_score>>
                                    ELSE <<optimum_rank, old_optimum>>
    ELSE IF new_score < old_optimum THEN <<new_rank, new_score>>
                                    ELSE <<optimum_rank, old_optimum>>

\* simulation::get_alpha_beta_for_team: <<alpha, beta>>
get_alpha_beta_for_team(old_alpha, old_beta, new_score, team) ==
    IF team = "Re"
    THEN <<IF old_alpha >= new_score THEN old_alpha ELSE new_score, old_beta>>
    ELSE <<old_alpha, IF old_beta <= new_score THEN old_beta ELSE new_score>>

\* the window test of a minimizer written as for the maximizer, mirrored
is_branch_prunable_mirrored(alpha, beta, team) ==
    IF team = "Re" THEN alpha >= beta ELSE beta <= alpha

\* simulation::is_branch_prunable
is_branch_prunable(alpha, beta, team) ==
    IF team = "Re" THEN alpha >= beta ELSE alpha <= beta

\* simulation::CardNode::new
CardNode(rank, team, depth, current_player, cards_to_play) ==
    [rank |-> rank, score |-> get_initial_score_for_team(team),
     alpha |-> get_initial_score_for_team("Re"),
     beta |-> get_initial_score_for_team("Contra"),
     visited |-> FALSE, depth |-> depth, current_player |-> current_player,
     cards_to_play |-> cards_to_play]

\* the history of the trick with depths counted from 1
push_round_to_tree_from_one(current_round, team) ==
    [d \in 1 .. Len(current_round.played_cards) |->
        LET current_player == (current_round.starting_player + (d - 1)) % NumPlayers
        IN  CardNode(current_round.played_cards[d].rank, team[current_player], d,
                     current_player, << >>)]

\* simulation::push_round_to_tree
push_round_to_tree(current_round, team) ==
    [d \in 1 .. Len(current_round.played_cards) |->
        LET current_player == (current_round.starting_player + (d - 1)) % NumPlayers
        IN  CardNode(current_round.played_cards[d].rank, team[current_player], d - 1,
                     current_player, << >>)]

\* card_lut[rank as usize - 1] is in range
LutOk(card_lut, rank) == rank \in 1 .. Len(card_lut)

Ranks(cards) == [k \in 1 .. Len(cards) |-> cards[k].rank]

RECURSIVE SumLen(_, _)
SumLen(hands, seats) ==
    IF seats = {} THEN 0
    ELSE LET p == CHOOSE q \in seats : TRUE
         IN  Len(hands[p]) + SumLen(hands, seats \ {p})

\* minimax, leaf branch: the loop `for n in &*nodes` over the stack below the
\* leaf; acc = [re, contra, starting_player, round_cards, bad]
\* the body of `if round_cards.len() == n_players`: the eyes of the trick go
\* to the team of its winner, who starts the next trick
leaf_award(acc, round_cards, winner, team) ==
    IF winner \notin Seats THEN [acc EXCEPT !.bad = TRUE]
    ELSE [re |-> IF team[winner] = "Re" THEN acc.re + SumEyes(round_cards)
                                        ELSE acc.re,
          contra |-> IF team[winner] = "Re" THEN acc.contra
                                            ELSE acc.contra + SumEyes(round_cards),
          starting_player |-> winner, round_cards |-> << >>, bad |-> FALSE]

RECURSIVE leaf_scan(_, _, _, _, _)
leaf_scan(nodes, i, acc, team, card_lut) ==
    IF i > Len(nodes) \/ acc.bad THEN acc
    ELSE IF ~LutOk(card_lut, nodes[i].rank) THEN [acc EXCEPT !.bad = TRUE]
    ELSE LET round_cards == Append(acc.round_cards, card_lut[nodes[i].rank])
         IN  leaf_scan(nodes, i + 1,
                       IF Len(round_cards) = NumPlayers
                       THEN leaf_award(acc, round_cards,
                                       determine_winner(round_cards, acc.starting_player),
                                       team)
                       ELSE [acc EXCEPT !.round_cards = round_cards],
                       team, card_lut)

\* the leaf is marked visited and keeps the score it was created with
leaf_scored_keeps_score(st, acc) ==
    IF acc.bad THEN [st EXCEPT !.status = "panic: leaf"]
    ELSE [st EXCEPT !.nodes[Len(st.nodes)] = [@ EXCEPT !.visited = TRUE]]

\* minimax, leaf branch (depth limit reached, node not yet visited)
leaf_scored(st, acc) ==
    IF acc.bad THEN [st EXCEPT !.status = "panic: leaf"]
    ELSE [st EXCEPT !.nodes[Len(st.nodes)] =
                        [@ EXCEPT !.score = acc.re - acc.contra, !.visited = TRUE]]

minimax_leaf(st, team, card_lut) ==
    LET current_node == st.nodes[Len(st.nodes)]
        nodes        == Front(st.nodes)
        start        == IF Len(nodes) > 0 THEN nodes[1].current_player
                                          ELSE current_node.current_player
    IN  leaf_scored(st, leaf_scan(nodes, 1,
                                  [re |-> 0, contra |-> 0, starting_player |-> start,
                                   round_cards |-> << >>, bad |-> FALSE],
                                  team, card_lut))

give_card_back_dropped(hand, card) == hand

\* minimax, reduce branch: `players[current_node.current_player].data_mut().hand
\* .push(card)`, the card goes back to the player who played it
give_card_back(hand, card) == Append(hand, card)

\* minimax, reduce branch (node fully expanded): undo the card, then return the
\* score or fold it into the parent node
minimax_reduce(st, team, card_lut, inl) ==
    LET current_node == st.nodes[Len(st.nodes)]
        nodes        == Front(st.nodes)
        cp           == current_node.current_player
    IN  IF ~LutOk(card_lut, current_node.rank) THEN [st EXCEPT !.status = "panic: lut"]
        ELSE
        LET hands == [st.hands EXCEPT
                        ![cp] = give_card_back(@, card_lut[current_node.rank])]
        IN  IF Len(nodes) = inl
            THEN [nodes |-> nodes, hands |-> hands, status |-> "ret",
                  score |-> current_node.score]
            ELSE IF current_node.score = I32_MIN \/ current_node.score = I32_MAX
            THEN [nodes |-> nodes, hands |-> hands, status |-> "panic: Invalid score",
                  score |-> st.score]
            ELSE
            LET last_node == nodes[Len(nodes)]
                t         == team[last_node.current_player]
                sc        == get_score_for_team(last_node.score, current_node.score,
                                                0, 0, t)[2]
                ab        == get_alpha_beta_for_team(last_node.alpha, last_node.beta,
                                                     current_node.score, t)
                reduced   == [last_node EXCEPT
                                !.score = sc, !.alpha = ab[1], !.beta = ab[2],
                                !.cards_to_play =
                                    IF is_branch_prunable(ab[1], ab[2], t)
                                    THEN << >> ELSE @]
            IN  [nodes |-> [nodes EXCEPT ![Len(nodes)] = reduced], hands |-> hands,
                 status |-> "run", score |-> st.score]

\* minimax, expand branch: the cards of the trick the node's card belongs to
played_in_trick(nodes, current_node, card_lut) ==
    LET k == current_node.depth % NumPlayers
    IN  [j \in 1 .. (k + 1) |->
            IF j <= k THEN card_lut[nodes[Len(nodes) - k + j].rank]
                      ELSE card_lut[current_node.rank]]

\* a turn order that does not advance inside a trick
next_player_of_same_seat(played_cards, current_player) ==
    IF Len(played_cards) = NumPlayers
    THEN determine_winner(played_cards, NumPlayers - current_player - 1)
    ELSE current_player

\* minimax, expand branch: the seat that plays the children of the node
next_player_of(played_cards, current_player) ==
    IF Len(played_cards) = NumPlayers
    THEN determine_winner(played_cards, NumPlayers - current_player - 1)
    ELSE (current_player + 1) % NumPlayers

\* minimax, expand branch (more moves to explore)
\* the body of `if current_node.cards_to_play.is_empty()`: ctp are the ranks
\* the next player may play
expand_first(st, ctp, cig) ==
    IF Len(ctp) > 0
    THEN [st EXCEPT !.nodes[Len(st.nodes)] =
                        [@ EXCEPT !.cards_to_play = ctp, !.visited = TRUE]]
    ELSE IF Len(st.nodes) = cig
    THEN [st EXCEPT !.nodes[Len(st.nodes)] = [@ EXCEPT !.visited = FALSE]]
    ELSE [st EXCEPT !.status = "panic: No possible cards"]

\* the else branch: the last of cards_to_play is played by the next player
expand_child(st, team, card_lut, next_player) ==
    LET current_node == st.nodes[Len(st.nodes)]
        ctp          == current_node.cards_to_play
        rank         == ctp[Len(ctp)]
    IN  IF ~LutOk(card_lut, rank) THEN [st EXCEPT !.status = "panic: lut"]
        ELSE IF RankPosition(st.hands[next_player], rank) = 0
        THEN [st EXCEPT !.status = "panic: remove"]
        ELSE [st EXCEPT
                !.hands[next_player] = remove_card_from_hand(@, card_lut[rank]),
                !.nodes = Front(st.nodes) \o
                    << [current_node EXCEPT !.cards_to_play = Front(ctp)],
                       CardNode(rank, team[next_player], current_node.depth + 1,
                                next_player, << >>) >>]

expand_for(st, team, card_lut, cig, played_cards, next_player) ==
    IF next_player \notin Seats THEN [st EXCEPT !.status = "panic: winner"]
    ELSE IF Len(st.nodes[Len(st.nodes)].cards_to_play) = 0
    THEN expand_first(st,
                      IF Len(played_cards) = NumPlayers
                      THEN Ranks(st.hands[next_player])
                      ELSE Ranks(filter_possible_cards(played_cards,
                                                       st.hands[next_player])),
                      cig)
    ELSE expand_child(st, team, card_lut, next_player)

expand_trick(st, team, card_lut, cig, played_cards) ==
    expand_for(st, team, card_lut, cig, played_cards,
               next_player_of(played_cards, st.nodes[Len(st.nodes)].current_player))

minimax_expand(st, team, card_lut, cig) ==
    LET current_node == st.nodes[Len(st.nodes)]
        nodes        == Front(st.nodes)
        k            == current_node.depth % NumPlayers
    IN  IF \/ Len(nodes) < k
           \/ ~LutOk(card_lut, current_node.rank)
           \/ \E j \in 1 .. Len(nodes) : j > Len(nodes) - k /\ ~LutOk(card_lut, nodes[j].rank)
        THEN [st EXCEPT !.status = "panic: lut"]
        ELSE expand_trick(st, team, card_lut, cig,
                          played_in_trick(nodes, current_node, card_lut))

\* the branch an iteration of the loop of minimax takes
minimax_branch(st, md) ==
    LET current_node == st.nodes[Len(st.nodes)]
    IN  IF current_node.depth = md /\ ~current_node.visited THEN "leaf"
        ELSE IF Len(current_node.cards_to_play) = 0 /\ current_node.visited
        THEN "reduce"
        ELSE "expand"

\* one iteration of the loop of minimax; md is _max_depth, inl the initial
\* length of the tree, cig the cards in game
minimax_step(st, team, card_lut, md, inl, cig) ==
    CASE minimax_branch(st, md) = "leaf"   -> minimax_leaf(st, team, card_lut)
      [] minimax_branch(st, md) = "reduce" -> minimax_reduce(st, team, card_lut, inl)
      [] minimax_branch(st, md) = "expand" -> minimax_expand(st, team, card_lut, cig)

\* the loop of minimax run until it returns or panics
RECURSIVE minimax_loop(_, _, _, _, _, _)
minimax_loop(st, team, card_lut, md, inl, cig) ==
    IF st.status # "run" THEN st
    ELSE minimax_loop(minimax_step(st, team, card_lut, md, inl, cig),
                      team, card_lut, md, inl, cig)

Min(a, b) == IF a <= b THEN a ELSE b

\* simulation::minimax, the values computed before the loop
max_depth_eff(hands, max_depth) == Min(SumLen(hands, Seats), max_depth)

\* simulation::minimax
minimax(nodes, hands, team, max_depth, card_lut) ==
    IF Len(nodes) = 0
    THEN [nodes |-> nodes, hands |-> hands, status |-> "panic: No nodes", score |-> 0]
    ELSE minimax_loop([nodes |-> nodes, hands |-> hands, status |-> "run", score |-> 0],
                      team, card_lut, max_depth_eff(hands, max_depth),
                      Len(nodes) - 1, 2 * Len(card_lut))

\* minimax_broad, the loop `for c in possible_cards` from the i-th candidate on;
\* bs = [nodes, hands, rank, score, status]
\* the fold of one candidate's score r into (best_move, best_score)
broad_fold(bs, c, r, t) ==
    IF r.status # "ret"
    THEN [bs EXCEPT !.status = r.status, !.nodes = r.nodes, !.hands = r.hands]
    ELSE [nodes |-> r.nodes, hands |-> r.hands,
          rank |-> get_score_for_team(bs.score, r.score, bs.rank, c.rank, t)[1],
          score |-> get_score_for_team(bs.score, r.score, bs.rank, c.rank, t)[2],
          status |-> "run"]

RECURSIVE broad_loop(_, _, _, _, _, _, _)
broad_loop(bs, i, possible_cards, current_player, team, max_depth, card_lut) ==
    IF i > Len(possible_cards) \/ bs.status # "run" THEN bs
    ELSE LET c     == possible_cards[i]
             nodes == Append(bs.nodes,
                             CardNode(c.rank, team[current_player], Len(bs.nodes),
                                      current_player, << >>))
             hands == [bs.hands EXCEPT ![current_player] = remove_card_from_hand(@, c)]
         IN  broad_loop(broad_fold(bs, c,
                                   minimax(nodes, hands, team, max_depth, card_lut),
                                   team[current_player]),
                        i + 1, possible_cards, current_player, team, max_depth,
                        card_lut)

\* simulation::minimax_broad: [nodes, hands, rank, score, status], status "run"
\* when it returns (rank, score)
minimax_broad(possible_cards, hands, team, current_round, max_depth, card_lut) ==
    broad_loop([nodes |-> push_round_to_tree(current_round, team), hands |-> hands,
                rank |-> 0,
                score |-> get_initial_score_for_team(team[current_round.current_player]),
                status |-> "run"],
               1, possible_cards, current_round.current_player, team, max_depth,
               card_lut)

\* simulation::simulate: the players are cloned into simulated players (hands
\* and teams as they are in the match), the lookup table is the sorted deck
\* without the second copies
simulate(deck, current_round, possible_cards, all_players, max_depth) ==
    minimax_broad(possible_cards,
                  [p \in Seats |-> all_players[p].hand],
                  [p \in Seats |-> all_players[p].team],
                  current_round, max_depth, dedup_cards(sort_cards(deck)))

(***************************************************************************)
(* Player adapters                                                         *)
(***************************************************************************)
NoCard == Card("Hearts", "Two", 0, FALSE, 0)

\* simulate: card_lut is the deck, sorted by rank, without the cards equal
\* (by rank) to the one before them
card_lut_of(deck) == dedup_cards(sort_cards(deck))

\* minimax: card_lut[rank as usize - 1], which panics out of the bounds
lut_lookup(card_lut, rank) ==
    IF LutOk(card_lut, rank)
    THEN [status |-> "ok", card |-> card_lut[rank]]
    ELSE [status |-> "panic: index out of bounds", card |-> NoCard]

\* HumanPlayer::choose_card; None is the status "panic: no card", since
\* play_card unwraps the result
choose_card_human(hand, possible_cards, deck, current_round, all_players) ==
    IF Len(hand) = 0 THEN [status |-> "panic: no card", card |-> NoCard]
    ELSE [status |-> "ok", card |-> possible_cards[1]]

\* ComputerPlayer::choose_card
\* ComputerPlayer::choose_card, the search for the card of rank best_move
\* among the possible cards
best_move_card(possible_cards, r) ==
    IF r.status # "run" THEN [status |-> r.status, card |-> NoCard]
    ELSE IF RankPosition(possible_cards, r.rank) = 0
    THEN [status |-> "panic: best move", card |-> NoCard]
    ELSE [status |-> "ok", card |-> possible_cards[RankPosition(possible_cards, r.rank)]]

choose_card_computer(hand, possible_cards, deck, current_round, all_players) ==
    IF Len(hand) = 0 THEN [status |-> "panic: no card", card |-> NoCard]
    ELSE IF Len(possible_cards) = 1 THEN [status |-> "ok", card |-> possible_cards[1]]
    ELSE best_move_card(possible_cards,
                        simulate(deck, current_round, possible_cards, all_players,
                                 SearchDepth))

\* dyn PlayerBehav::choose_card
choose_card(ptype, hand, possible_cards, deck, current_round, all_players) ==
    IF ptype = "Computer"
    THEN choose_card_computer(hand, possible_cards, deck, current_round, all_players)
    ELSE choose_card_human(hand, possible_cards, deck, current_round, all_players)

(***************************************************************************)
(* Match and Round                                                         *)
(***************************************************************************)
PlayerTypes == {"Human", "Computer"}

\* the player types a game is set up with: all computer (as main does), all
\* human, or alternating
PlayerTypeChoices ==
    {[p \in Seats |-> "Computer"], [p \in Seats |-> "Human"],
     [p \in Seats |-> IF p % 2 = 0 THEN "Computer" ELSE "Human"]}

DeckTypes == {"Tournament"}

SwapAt(s, i, j) ==
    [k \in 1 .. Len(s) |-> IF k = i THEN s[j] ELSE IF k = j THEN s[i] ELSE s[k]]

\* Match::shuffle_cards: the orders deck.shuffle(rng) may leave the deck in,
\* here those that differ from the given order by at most k exchanges
RECURSIVE Shuffles(_, _)
Shuffles(deck, k) ==
    IF k = 0 THEN {deck}
    ELSE LET prev == Shuffles(deck, k - 1)
         IN  prev \cup {SwapAt(d, i, j) : d \in prev, i \in 1 .. Len(deck),
                                          j \in 1 .. Len(deck)}

\* Match::distribute_cards: cards are popped from the end of the deck and
\* pushed to the hands in seat order
distribute_cards(deck) ==
    [p \in Seats |->
        [j \in 1 .. (Len(deck) \div NumPlayers) |->
            deck[Len(deck) - p - (j - 1) * NumPlayers]]]

set_dealer_and_beginner_keeps_beginner(pl) ==
    LET d_idx_old == IF \E p \in Seats : pl[p].dealer
                     THEN CHOOSE p \in Seats :
                            pl[p].dealer /\ \A q \in Seats : q < p => ~pl[q].dealer
                     ELSE NumPlayers - 1
        d_idx_new == (d_idx_old + 1) % NumPlayers
        b_idx_new == (d_idx_new + 1) % NumPlayers
        s1 == [pl EXCEPT ![d_idx_old].dealer = FALSE]
        s2 == [s1 EXCEPT ![d_idx_new].dealer = TRUE]
    IN  [s2 EXCEPT ![b_idx_new].beginner = TRUE]

\* Match::set_dealer_and_beginner
set_dealer_and_beginner(pl) ==
    LET d_idx_old == IF \E p \in Seats : pl[p].dealer
                     THEN CHOOSE p \in Seats :
                            pl[p].dealer /\ \A q \in Seats : q < p => ~pl[q].dealer
                     ELSE NumPlayers - 1
        d_idx_new == (d_idx_old + 1) % NumPlayers
        b_idx_old == d_idx_new
        b_idx_new == (b_idx_old + 1) % NumPlayers
        s1 == [pl EXCEPT ![d_idx_old].dealer = FALSE]
        s2 == [s1 EXCEPT ![d_idx_new].dealer = TRUE]
        s3 == [s2 EXCEPT ![b_idx_old].beginner = FALSE]
    IN  [s3 EXCEPT ![b_idx_new].beginner = TRUE]

\* Match::determine_match_type: every player calls Normal (make_call), the
\* maximum of the calls is Normal
determine_match_type(pl) == "Normal"

\* Match::get_team_score
get_team_score(pl, team) ==
    LET RECURSIVE Sum(_)
        Sum(seats) ==
            IF seats = {} THEN 0
            ELSE LET p == CHOOSE q \in seats : TRUE
                 IN  (IF pl[p].team = team THEN get_eye_score(pl[p]) ELSE 0)
                     + Sum(seats \ {p})
    IN  Sum(Seats)

match_winner_ties_to_re(pl) ==
    IF get_team_score(pl, "Re") < get_team_score(pl, "Contra") THEN "Contra" ELSE "Re"

\* Match::determine_winner
match_winner(pl) ==
    IF get_team_score(pl, "Re") <= get_team_score(pl, "Contra") THEN "Contra" ELSE "Re"

\* no search is running
NoSim == [st |-> [nodes |-> << >>, hands |-> [p \in Seats |-> << >>],
                  status |-> "none", score |-> 0],
          possible_cards |-> << >>, team |-> [p \in Seats |-> "Contra"],
          card_lut |-> << >>, max_depth |-> 0, md |-> 0, inl |-> 0,
          i |-> 0, rank |-> 0, best |-> 0, scores |-> << >>,
          choice |-> [status |-> "none", card |-> NoCard],
          entry |-> [valid |-> FALSE, players |-> << >>, round |-> << >>]]

NoPlay == [valid |-> FALSE, seat |-> 0, card |-> NoCard, played_cards |-> << >>,
           hand |-> << >>]

\* Game::new, four add_player calls, Match::new, Round::new
Init ==
    /\ game \in [deck_type : DeckTypes, ptype : PlayerTypeChoices,
                 n_matches : {1}, matches : {0}, swaps : {MaxSwaps},
                 deck_buff : {NewDeckBuff}]
    /\ players = [p \in Seats |-> NewPlayer(p = 0)]
    /\ match = [rounds |-> << >>, deck |-> << >>, match_type |-> "Normal",
                n_rounds |-> 0, winner |-> "Contra", last_round_winner |-> 0]
    /\ round = [played_cards |-> << >>, current_player |-> 0,
                starting_player |-> 0, winner |-> 0]
    /\ pc = "init_match"
    /\ hist = [dealt |-> << >>, last |-> NoPlay, reads |-> << >>]
    /\ trk = [kind |-> "none", cards |-> << >>, start |-> 0,
              done |-> FALSE, wc |-> "", winner |-> NoWinner]
    /\ sim = NoSim

dealt_players_keeps_won_cards(pl, shuffled) ==
    LET hands == distribute_cards(shuffled)
    IN  set_dealer_and_beginner(
            [p \in Seats |-> [pl[p] EXCEPT !.serve_flags = SERVE_FLAG_ALL,
                                           !.hand = hands[p],
                                           !.team = "Contra"]])

\* Match::init_match, the players after reset_player, distribute_cards and
\* set_dealer_and_beginner
dealt_players(pl, shuffled) ==
    LET hands == distribute_cards(shuffled)
    IN  set_dealer_and_beginner(
            [p \in Seats |-> [pl[p] EXCEPT !.serve_flags = SERVE_FLAG_ALL,
                                           !.won_cards = << >>,
                                           !.hand = hands[p],
                                           !.team = "Contra"]])

num_rounds_one_more(deck) == Len(deck) \div NumPlayers + 1

\* Match::init_match, the number of rounds handed to set_num_rounds
num_rounds(deck) == Len(deck) \div NumPlayers

\* the catalog reads so far, with one more if the call read the catalog
catalog_reads(reads, read, relation, deck_type, match_type) ==
    IF read
    THEN Append(reads, [relation |-> relation, deck_type |-> deck_type,
                        match_type |-> match_type])
    ELSE reads

\* Match::init_match
InitMatch ==
    /\ pc = "init_match"
    /\ \E got \in {buffered_get_deck(game.deck_buff, game.deck_type)} :
          /\ game' = [game EXCEPT !.deck_buff = got.deck_buff]
          /\ IF Len(got.deck) = 0 \/ Len(got.deck) % NumPlayers # 0
             THEN /\ pc' = "panic: deck"
                  /\ hist' = [hist EXCEPT !.reads =
                                 catalog_reads(@, got.read, "cards_per_deck",
                                               game.deck_type, "")]
                  /\ UNCHANGED <<players, match>>
             ELSE \E shuffled \in Shuffles(got.deck, game.swaps) :
                      /\ players' = dealt_players(players, shuffled)
                      /\ match' = [match EXCEPT !.rounds = << >>, !.deck = << >>,
                                     !.n_rounds = num_rounds(got.deck)]
                      /\ hist' = [hist EXCEPT !.dealt = shuffled,
                                     !.reads =
                                         catalog_reads(@, got.read, "cards_per_deck",
                                                       game.deck_type, "")]
                      /\ pc' = "setup"
    /\ UNCHANGED <<round, trk, sim>>

\* Match::play_match, the loop that gives every player the values of its cards
\* and its team
valued_players(pl, deck, match_type) ==
    [p \in Seats |->
        LET hand == update_hand_values(pl[p].hand, deck)
        IN  [pl[p] EXCEPT !.hand = hand,
                          !.team = get_team_for_player(hand, match_type)]]

\* Match::play_match from determine_match_type to the start of the round loop
SetupMatch ==
    /\ pc = "setup"
    /\ \E match_type \in {determine_match_type(players)} :
       \E got \in {buffered_get_card_values(game.deck_buff, match.deck, match_type,
                                            game.deck_type)} :
          /\ game' = [game EXCEPT !.deck_buff = got.deck_buff]
          /\ hist' = [hist EXCEPT !.reads =
                         catalog_reads(@, got.read, "cards_per_rule",
                                       game.deck_type, match_type)]
          /\ match' = [match EXCEPT !.match_type = match_type, !.deck = got.deck,
                                     !.last_round_winner = 0]
          /\ IF \E p \in Seats : hand_values_missing(players[p].hand, got.deck)
             THEN /\ pc' = "panic: Card not found in deck"
                  /\ UNCHANGED players
             ELSE /\ players' = valued_players(players, got.deck, match_type)
                  /\ pc' = "rounds"
    /\ UNCHANGED <<round, trk, sim>>

BeginRoundFromSeatZero ==
    /\ pc = "rounds"
    /\ Len(match.rounds) < match.n_rounds
    /\ round' = [played_cards |-> << >>, current_player |-> 0,
                 starting_player |-> 0, winner |-> 0]
    /\ pc' = "play"
    /\ UNCHANGED <<game, players, match, hist, trk, sim>>

\* play_match, loop head, and Round::play_round up to init_round
BeginRound ==
    /\ pc = "rounds"
    /\ Len(match.rounds) < match.n_rounds
    /\ round' = [played_cards |-> << >>, current_player |-> match.last_round_winner,
                 starting_player |-> match.last_round_winner, winner |-> 0]
    /\ pc' = "play"
    /\ UNCHANGED <<game, players, match, hist, trk, sim>>

\* Round::play_card from the unwrap of the chosen card on, and the advance of
\* current_player and the push of the card in play_round
played(pl, rnd, choice) ==
    LET cp   == rnd.current_player
        hand == pl[cp].hand
    IN  IF choice.status # "ok"
        THEN [status |-> choice.status, players |-> pl, round |-> rnd, last |-> NoPlay]
        ELSE IF RankPosition(hand, choice.card.rank) = 0
        THEN [status |-> "panic: remove",
              players |-> [pl EXCEPT ![cp].serve_flags =
                              update_serve_flags(@, rnd.played_cards, choice.card)],
              round |-> rnd, last |-> NoPlay]
        ELSE [status |-> "play",
              players |-> [pl EXCEPT
                             ![cp].serve_flags =
                                 update_serve_flags(@, rnd.played_cards, choice.card),
                             ![cp].hand = remove_card_from_hand(@, choice.card)],
              round |-> [rnd EXCEPT
                           !.current_player = (cp + 1) % NumPlayers,
                           !.played_cards = Append(@, removed_card(hand, choice.card))],
              last |-> [valid |-> TRUE, seat |-> cp,
                        card |-> removed_card(hand, choice.card),
                        played_cards |-> rnd.played_cards, hand |-> hand]]

\* Round::play_card and the rest of the iteration of play_round's loop
play_card(pl, rnd, ptype, deck) ==
    played(pl, rnd,
           choose_card(ptype[rnd.current_player], pl[rnd.current_player].hand,
                       filter_possible_cards(rnd.played_cards,
                                             pl[rnd.current_player].hand),
                       deck, rnd, pl))

\* the state after a play
Played(res) ==
    /\ pc' = res.status
    /\ players' = res.players
    /\ round' = res.round
    /\ hist' = IF res.last.valid THEN [hist EXCEPT !.last = res.last] ELSE hist

\* Round::play_round, one iteration of `for _i in 0..players.len()`:
\* Round::play_card, the advance of current_player and the push of the card
PlayCard ==
    /\ pc = "play"
    /\ Len(round.played_cards) < NumPlayers
    /\ Played(play_card(players, round, game.ptype, match.deck))
    /\ UNCHANGED <<game, match, trk, sim>>

collect_won_cards_first_only(won_cards, cards) == Append(won_cards, cards[1])

\* PlayerBehav::collect_won_cards
collect_won_cards(won_cards, cards) == won_cards \o cards

\* Round::play_round after the loop, and play_match's bookkeeping of the round
EndRound ==
    /\ pc = "play"
    /\ Len(round.played_cards) = NumPlayers
    /\ LET winner == determine_winner(round.played_cards, round.starting_player)
       IN  IF winner \notin Seats
           THEN /\ pc' = "panic: Invalid card configuration"
                /\ UNCHANGED <<players, match, round>>
           ELSE /\ players' = [players EXCEPT ![winner].won_cards =
                                  collect_won_cards(@, round.played_cards)]
                /\ round' = [round EXCEPT !.winner = winner, !.played_cards = << >>]
                /\ match' = [match EXCEPT
                               !.last_round_winner = winner,
                               !.rounds = Append(@, [starting_player |-> round.starting_player,
                                                     winner |-> winner])]
                /\ pc' = "rounds"
    /\ UNCHANGED <<game, hist, trk, sim>>

\* play_match after the round loop: Match::determine_winner, and the push of
\* the match in Game::play_game
FinishMatch ==
    /\ pc = "rounds"
    /\ Len(match.rounds) >= match.n_rounds
    /\ match' = [match EXCEPT !.winner = match_winner(players)]
    /\ game' = [game EXCEPT !.matches = @ + 1]
    /\ pc' = "done"
    /\ UNCHANGED <<players, round, hist, trk, sim>>

\* Game::play_game, the next iteration of `for _i in 0..self.n_matches`:
\* Match::new; the round and the plays of the match before are gone
NextMatch ==
    /\ pc = "done"
    /\ game.matches < game.n_matches
    /\ match' = [rounds |-> << >>, deck |-> << >>, match_type |-> "Normal",
                n_rounds |-> 0, winner |-> "Contra", last_round_winner |-> 0]
    /\ round' = [played_cards |-> << >>, current_player |-> 0,
                 starting_player |-> 0, winner |-> 0]
    /\ hist' = [hist EXCEPT !.dealt = << >>, !.last = NoPlay]
    /\ pc' = "init_match"
    /\ UNCHANGED <<game, players, trk, sim>>

Next == InitMatch \/ SetupMatch \/ BeginRound \/ PlayCard \/ EndRound \/ FinishMatch

Spec == Init /\ [][Next]_vars

\* play_match is running: it has neither returned nor panicked
Running == pc \in {"init_match", "setup", "rounds", "play"}

\* one match as a sequential program that runs on while it can: weak fairness
\* of Next, with the state predicate Running for ENABLED <<Next>>_vars (every
\* running state has a step: each value of pc has an action whose guards cover
\* all cases)
\* Init with the shuffles of GameSwaps exchanges
FairInit ==
    /\ game \in [deck_type : DeckTypes, ptype : PlayerTypeChoices,
                 n_matches : {1}, matches : {0}, swaps : {GameSwaps},
                 deck_buff : {NewDeckBuff}]
    /\ players = [p \in Seats |-> NewPlayer(p = 0)]
    /\ match = [rounds |-> << >>, deck |-> << >>, match_type |-> "Normal",
                n_rounds |-> 0, winner |-> "Contra", last_round_winner |-> 0]
    /\ round = [played_cards |-> << >>, current_player |-> 0,
                starting_player |-> 0, winner |-> 0]
    /\ pc = "init_match"
    /\ hist = [dealt |-> << >>, last |-> NoPlay, reads |-> << >>]
    /\ trk = [kind |-> "none", cards |-> << >>, start |-> 0,
              done |-> FALSE, wc |-> "", winner |-> NoWinner]
    /\ sim = NoSim

SpecFair == FairInit /\ [][Next]_vars /\ ([]<>~Running \/ []<><<Next>>_vars)

\* Game::new(n_matches, ..), four add_player calls, Match::new, Round::new, for
\* a game of up to MaxMatches matches
GameInit ==
    /\ game \in [deck_type : DeckTypes, ptype : PlayerTypeChoices,
                 n_matches : 1 .. MaxMatches, matches : {0}, swaps : {GameSwaps},
                 deck_buff : {NewDeckBuff}]
    /\ players = [p \in Seats |-> NewPlayer(p = 0)]
    /\ match = [rounds |-> << >>, deck |-> << >>, match_type |-> "Normal",
                n_rounds |-> 0, winner |-> "Contra", last_round_winner |-> 0]
    /\ round = [played_cards |-> << >>, current_player |-> 0,
                starting_player |-> 0, winner |-> 0]
    /\ pc = "init_match"
    /\ hist = [dealt |-> << >>, last |-> NoPlay, reads |-> << >>]
    /\ trk = [kind |-> "none", cards |-> << >>, start |-> 0,
              done |-> FALSE, wc |-> "", winner |-> NoWinner]
    /\ sim = NoSim

GameNext == Next \/ NextMatch

SpecGame == GameInit /\ [][GameNext]_vars

(***************************************************************************)
(* Properties of a match (Spec).                                           *)
(***************************************************************************)
\* the serves predicate as the specification states it (section 4.2)
Serves(a, b) ==
    \/ (a.trump /\ b.trump)
    \/ (~a.trump /\ ~b.trump /\ a.suit = b.suit)

\* the match is past the deal
Dealt == pc \in {"setup", "rounds", "play", "done"}

\* number of cards with the (suit, face) in a sequence of cards
CountIn(cards, suit, face) ==
    Cardinality({k \in 1 .. Len(cards) : cards[k].suit = suit /\ cards[k].face = face})

\* number of cards with the (suit, face) in all hands, all won-card piles and
\* the current trick
CountInPlay(suit, face) ==
    LET RECURSIVE Sum(_)
        Sum(seats) ==
            IF seats = {} THEN 0
            ELSE LET p == CHOOSE q \in seats : TRUE
                 IN  CountIn(players[p].hand, suit, face)
                     + CountIn(players[p].won_cards, suit, face)
                     + Sum(seats \ {p})
    IN  Sum(Seats) + CountIn(round.played_cards, suit, face)

Faces == {"Two", "Three", "Four", "Five", "Six", "Seven", "Eight", "Nine", "Ten",
          "Jack", "Queen", "King", "Ace"}

\* C1: deck conservation: at every point of a match after the deal, the
\* multiset of cards in the hands, the won-card piles and the current trick is
\* the multiset of cards dealt at match init.
C1_DeckConservation ==
    Dealt => \A suit \in Suits, face \in Faces :
                CountInPlay(suit, face) = CountIn(hist.dealt, suit, face)

\* a trick has been awarded and a card of the next trick is on the table
C1_Witness ==
    /\ pc = "play"
    /\ Len(match.rounds) = 1
    /\ Len(round.played_cards) = 2
    /\ \E p \in Seats : Len(players[p].won_cards) = NumPlayers

\* C2: legality: every card played, by a human or a computer player, is in the
\* hand before the play, and serves the leading card whenever the hand holds a
\* card that serves it.
C2_Legality ==
    hist.last.valid =>
        LET h == hist.last.hand
            t == hist.last.played_cards
            c == hist.last.card
        IN  /\ \E k \in 1 .. Len(h) : h[k] = c
            /\ (Len(t) > 0 /\ \E k \in 1 .. Len(h) : Serves(t[1], h[k]))
                    => Serves(t[1], c)

\* a computer player holding a card that serves the lead and one that does
\* not has played the serving card
C2_Witness ==
    /\ hist.last.valid
    /\ game.ptype[hist.last.seat] = "Computer"
    /\ Len(hist.last.played_cards) > 0
    /\ Serves(hist.last.played_cards[1], hist.last.card)
    /\ \E k \in 1 .. Len(hist.last.hand) :
          ~Serves(hist.last.played_cards[1], hist.last.hand[k])

\* the live players with the a-th card of seat p and the b-th card of seat q
\* exchanged: the players of the deal that differs in these two hidden cards
HiddenExchange(p, a, q, b) ==
    [players EXCEPT ![p].hand[a] = players[q].hand[b],
                    ![q].hand[b] = players[p].hand[a]]

\* a computer player is about to lead the first trick of the match
FirstLead ==
    /\ pc = "play"
    /\ Len(match.rounds) = 0
    /\ Len(round.played_cards) = 0
    /\ game.ptype[round.current_player] = "Computer"

\* the card the acting player chooses when the players are pl
ChoiceWith(pl) ==
    choose_card(game.ptype[round.current_player], pl[round.current_player].hand,
                filter_possible_cards(round.played_cards,
                                      pl[round.current_player].hand),
                match.deck, round, pl)

\* C5: the card a computer player chooses does not depend on how the cards it
\* cannot see are distributed among the other players: at the first lead of a
\* match, exchanging two cards between two other players, the teams staying as
\* they are, leaves the chosen card the same.
C5_ChoiceIndependentOfHiddenCards ==
    FirstLead =>
        \A p, q \in Seats \ {round.current_player} :
            \A a \in 1 .. Len(players[p].hand), b \in 1 .. Len(players[q].hand) :
                (/\ p # q
                 /\ \A s \in {p, q} :
                       get_team_for_player(HiddenExchange(p, a, q, b)[s].hand,
                                           match.match_type) = players[s].team)
                    => ChoiceWith(HiddenExchange(p, a, q, b)).card = ChoiceWith(players).card

\* the first trick of the match is being played
FirstTrick == pc = "play" /\ Len(match.rounds) = 0

\* C11: the first trick of every match is led by the player whose beginner
\* flag set_dealer_and_beginner has set for that match
C11_BeginnerLeadsFirstTrick ==
    FirstTrick => players[round.starting_player].beginner

\* the seat whose turn it is in the trick being played
SeatInTurn == (round.starting_player + Len(round.played_cards)) % NumPlayers

\* a round of a match after the first starts
RoundStarts == pc = "rounds" /\ pc' = "play" /\ Len(match.rounds) >= 1

\* a card is played to the trick
CardIsPlayed == pc = "play" /\ pc' = "play"

\* the trick is complete and awarded
TrickIsAwarded == pc = "play" /\ pc' = "rounds"

\* C12: trick order: a round after the first is started by the winner of the
\* round before; the cards of a trick are played one by one, the k-th by the
\* k-th seat counted from the starting player, each from its own hand, until
\* every player has played one; the winner computed then gets exactly the
\* cards of the trick appended to its won-card pile, nobody else gets any
C12_TrickOrder ==
    [][/\ RoundStarts =>
             /\ round'.starting_player = match.rounds[Len(match.rounds)].winner
             /\ round'.current_player = round'.starting_player
             /\ round'.played_cards = << >>
       /\ CardIsPlayed =>
             /\ Len(round.played_cards) < NumPlayers
             /\ round.current_player = SeatInTurn
             /\ round'.starting_player = round.starting_player
             /\ \E k \in 1 .. Len(players[SeatInTurn].hand) :
                   /\ round'.played_cards =
                         Append(round.played_cards, players[SeatInTurn].hand[k])
                   /\ Len(players'[SeatInTurn].hand) = Len(players[SeatInTurn].hand) - 1
             /\ \A p \in Seats \ {SeatInTurn} : players'[p].hand = players[p].hand
             /\ \A p \in Seats : players'[p].won_cards = players[p].won_cards
       /\ TrickIsAwarded =>
             /\ Len(round.played_cards) = NumPlayers
             /\ round'.winner = match'.last_round_winner
             /\ round'.winner = determine_winner(round.played_cards, round.starting_player)
             /\ players'[round'.winner].won_cards =
                   players[round'.winner].won_cards \o round.played_cards
             /\ \A p \in Seats \ {round'.winner} :
                   players'[p].won_cards = players[p].won_cards
             /\ \A p \in Seats : players'[p].hand = players[p].hand
      ]_vars

\* the second round of a match was led by the winner of the first, a seat other
\* than the one that led the first, and that winner holds both tricks
C12_Witness ==
    /\ pc = "rounds"
    /\ Len(match.rounds) = 2
    /\ match.rounds[1].winner # match.rounds[1].starting_player
    /\ match.rounds[2].starting_player = match.rounds[1].winner
    /\ match.rounds[2].winner = match.rounds[1].winner
    /\ Len(players[match.rounds[1].winner].won_cards) = 2 * NumPlayers

\* the bit of a class in a serve mask (enum ServeFlag)
BitOf(class) ==
    CASE class = "Hearts"   -> 1
      [] class = "Diamonds" -> 2
      [] class = "Clubs"    -> 4
      [] class = "Spades"   -> 8
      [] class = "Trump"    -> 16

\* the bits of a serve mask
ServeBits == {BitOf(class) : class \in Suits \cup {"Trump"}}

\* no bit is set in the mask `after` that is not set in `before`
NoBitGained(before, after) ==
    \A f \in ServeBits : FlagSet(after, f) => FlagSet(before, f)

\* C13: serve-mask monotonicity: from the end of init_match to the end of the
\* match no step sets a bit in any player's serve_flags
C13_ServeMaskMonotone ==
    [][pc # "init_match" =>
          \A p \in Seats : NoBitGained(players[p].serve_flags, players'[p].serve_flags)
      ]_vars

\* a match has ended and a player has lost two bits of its mask in it
C13_Witness ==
    /\ pc = "done"
    /\ \E p \in Seats : \E f, g \in ServeBits :
          /\ f # g
          /\ ~FlagSet(players[p].serve_flags, f)
          /\ ~FlagSet(players[p].serve_flags, g)

\* the class of a card: Trump if it is trump, else its suit
ClassOf(c) == IF c.trump THEN "Trump" ELSE c.suit

\* the mask `after` is the mask `before` with exactly the bit f cleared
ExactlyCleared(before, after, f) ==
    /\ after \in 0 .. SERVE_FLAG_ALL
    /\ \A g \in ServeBits : FlagSet(after, g) <=> (FlagSet(before, g) /\ g # f)

\* the card played by the step
CardPlayed == round'.played_cards[Len(round'.played_cards)]

\* C14: serve-mask update rule: when a player plays card c onto a non-empty
\* trick, its mask loses exactly the bit of the class of the leading card if c
\* does not serve the lead, and stays as it is if c serves; the play of the
\* leader leaves its mask as it is; the masks of all other players stay
C14_ServeMaskUpdateRule ==
    [][CardIsPlayed =>
          /\ IF round.played_cards = << >>
             THEN players'[SeatInTurn].serve_flags = players[SeatInTurn].serve_flags
             ELSE IF Serves(CardPlayed, round.played_cards[1])
             THEN players'[SeatInTurn].serve_flags = players[SeatInTurn].serve_flags
             ELSE ExactlyCleared(players[SeatInTurn].serve_flags,
                                 players'[SeatInTurn].serve_flags,
                                 BitOf(ClassOf(round.played_cards[1])))
          /\ \A p \in Seats \ {SeatInTurn} :
                players'[p].serve_flags = players[p].serve_flags
      ]_vars

\* a player has just played a plain card onto a trump lead and lacks the Trump
\* bit only; the leader and a player that served have their full masks
C14_Witness ==
    /\ pc = "play"
    /\ hist.last.valid
    /\ Len(hist.last.played_cards) >= 2
    /\ hist.last.played_cards[1].trump
    /\ Serves(hist.last.played_cards[2], hist.last.played_cards[1])
    /\ ~hist.last.card.trump
    /\ players[hist.last.seat].serve_flags = SERVE_FLAG_ALL - BitOf("Trump")
    /\ players[round.starting_player].serve_flags = SERVE_FLAG_ALL
    /\ players[(round.starting_player + 1) % NumPlayers].serve_flags = SERVE_FLAG_ALL

\* a match has ended: play_match has returned
MatchEnded == pc = "done"

\* C15: eye conservation: at the end of every match the eye score of Re plus
\* the eye score of Contra, as get_team_score computes them, is the sum of the
\* eyes of all cards of the re-valued deck
C15_EyeConservation ==
    MatchEnded =>
        get_team_score(players, "Re") + get_team_score(players, "Contra")
            = SumEyes(match.deck)

\* a later match of a game has ended with eyes on both sides
C15_Witness ==
    /\ MatchEnded
    /\ game.matches = 2
    /\ get_team_score(players, "Re") > 0
    /\ get_team_score(players, "Contra") > 0
    /\ SumEyes(match.deck) > 0
    /\ Len(match.deck) = NumPlayers * match.n_rounds

\* the teams of the match are set
TeamsSet == pc \in {"rounds", "play", "done"}

\* the hand seat p was dealt in this match
DealtHand(p) == distribute_cards(hist.dealt)[p]

\* the sequence of cards holds a Queen of Clubs
HasClubsQueen(cards) == CountIn(cards, "Clubs", "Queen") >= 1

\* C17: in a Normal match a player is Re if and only if the hand it was dealt
\* holds at least one Queen of Clubs; this holds in every round of the match,
\* also after the Queen has been played
C17_NormalTeams ==
    (TeamsSet /\ match.match_type = "Normal") =>
        \A p \in Seats :
            /\ players[p].team \in {"Re", "Contra"}
            /\ players[p].team = "Re" <=> HasClubsQueen(DealtHand(p))

\* in the second round of a Normal match a Re player has no Queen of Clubs in
\* its hand any more, and a player that was dealt none is Contra
C17_Witness ==
    /\ pc = "play"
    /\ Len(match.rounds) = 1
    /\ match.match_type = "Normal"
    /\ \E p \in Seats :
          /\ players[p].team = "Re"
          /\ HasClubsQueen(DealtHand(p))
          /\ ~HasClubsQueen(players[p].hand)
          /\ Len(players[p].hand) = 1
    /\ \E p \in Seats : players[p].team = "Contra" /\ ~HasClubsQueen(DealtHand(p))

\* the seats with the dealer flag, and with the beginner flag
Dealers(pl) == {p \in Seats : pl[p].dealer}
Beginners(pl) == {p \in Seats : pl[p].beginner}

\* init_match runs to its end
MatchIsInitialised == pc = "init_match" /\ pc' = "setup"

\* C19: dealer and beginner rotation: after every init_match of a game exactly
\* one player is dealer and exactly one is beginner; the dealer is the seat
\* after the dealer of the match before (of the game's setup, for the first
\* match), the beginner the seat after the new dealer, modulo the number of
\* players; between two init_match the flags stay as they are
C19_DealerBeginnerRotation ==
    [][/\ MatchIsInitialised =>
             \E d_old \in Seats :
                /\ Dealers(players) = {d_old}
                /\ Dealers(players') = {(d_old + 1) % NumPlayers}
                /\ Beginners(players') = {(d_old + 2) % NumPlayers}
       /\ ~MatchIsInitialised =>
             /\ Dealers(players') = Dealers(players)
             /\ Beginners(players') = Beginners(players)
      ]_vars

\* the third match of a game is initialised: the dealer is the last seat and
\* the beginner has wrapped around to seat 0
C19_Witness ==
    /\ pc = "setup"
    /\ game.matches = 2
    /\ Dealers(players) = {NumPlayers - 1}
    /\ Beginners(players) = {0}

\* init_match has just returned
AfterInitMatch == pc = "setup"

\* C20: per-match reset: after init_match, in the first and in every later
\* match of a game, every player has all five bits of its serve mask set, an
\* empty won-card pile and |deck| / |players| cards in hand, and the deck of
\* the match is empty
C20_PerMatchReset ==
    AfterInitMatch =>
        /\ \A p \in Seats :
              /\ \A f \in ServeBits : FlagSet(players[p].serve_flags, f)
              /\ players[p].won_cards = << >>
              /\ Len(players[p].hand) = Len(get_deck(game.deck_type)) \div NumPlayers
        /\ match.deck = << >>

\* a later match of a game is initialised and every player has cards in hand
C20_Witness ==
    /\ AfterInitMatch
    /\ game.matches >= 1
    /\ \A p \in Seats : Len(players[p].hand) >= 2 /\ players[p].serve_flags = SERVE_FLAG_ALL

\* play_match has returned
MatchStopped == pc = "done"

\* the number of cards of the deck the match was dealt from
DeckSize == Len(hist.dealt)

\* the rounds played never exceed n_rounds, which is |deck| / |players| from
\* init_match on, and a match that has stopped has played n_rounds rounds and
\* left every hand empty
RoundsBounded ==
    /\ Len(match.rounds) <= match.n_rounds
    /\ Dealt => match.n_rounds * NumPlayers = DeckSize
    /\ MatchStopped =>
          /\ Len(match.rounds) = match.n_rounds
          /\ \A p \in Seats : players[p].hand = << >>

\* C22: a match runs to completion: play_match plays exactly n_rounds =
\* |deck| / |players| rounds and then stops; the number of rounds never
\* exceeds n_rounds, and when the match stops every hand is empty
C22_MatchRunsToCompletion == []RoundsBounded /\ <>[]MatchStopped

\* a match has stopped after two rounds with all eight cards in won piles
C22_Witness ==
    /\ MatchStopped
    /\ match.n_rounds = 2
    /\ Len(match.rounds) = 2
    /\ DeckSize = 2 * NumPlayers
    /\ \A p \in Seats : players[p].hand = << >>

\* C27: within one game the rule catalog is read at most once per deck type
\* for the deck skeleton and at most once per (deck type, match type) for the
\* card values: no read of the catalog is made a second time, so a second
\* match with the same types is answered from DeckBuff
C27_CatalogReadOnce ==
    \A i \in 1 .. Len(hist.reads) : \A j \in 1 .. Len(hist.reads) :
        i < j => hist.reads[i] # hist.reads[j]

\* C34: void knowledge is sound: in every state of a match, if a bit of a
\* player's serve mask is cleared, the player's hand holds no card of that
\* serving class (no trump for the Trump bit, no plain card of the suit for a
\* suit bit)
C34_VoidKnowledgeSound ==
    \A p \in Seats : \A i \in 1 .. Len(players[p].hand) :
        FlagSet(players[p].serve_flags, BitOf(ClassOf(players[p].hand[i])))

\* a player with a cleared bit still holds a card
C34_Witness ==
    \E p \in Seats :
        /\ players[p].serve_flags # SERVE_FLAG_ALL
        /\ Len(players[p].hand) > 0

(***************************************************************************)
(* SpecSearch: ComputerPlayer::choose_card at a position of the first      *)
(* trick of a match.  Init draws the deal, the number of cards already     *)
(* played to the trick and max_depth; the actions are choose_card,         *)
(* simulate, and the iterations of the loops of minimax_broad and minimax. *)
(* sim.st holds nodes and the hands of sim_pl, sim.entry the live players  *)
(* and round as they were when choose_card was called (history).           *)
(***************************************************************************)
\* the first n card plays of the first trick of a match
RECURSIVE first_trick(_, _, _, _, _)
first_trick(pl, rnd, ptype, deck, n) ==
    IF n = 0 THEN [status |-> "play", players |-> pl, round |-> rnd, last |-> NoPlay]
    ELSE LET before == first_trick(pl, rnd, ptype, deck, n - 1)
         IN  IF before.status # "play" THEN before
             ELSE play_card(before.players, before.round, ptype, deck)

\* the match when the n-th seat is about to play to the first trick
position(ptype, deck_type, shuffled, n) ==
    LET match_type == determine_match_type(dealt_players([p \in Seats |-> NewPlayer(p = 0)],
                                                         shuffled))
        deck       == get_card_values(<< >>, match_type, deck_type)
    IN  [deck |-> deck, match_type |-> match_type,
         trick |-> first_trick(
                      valued_players(dealt_players([p \in Seats |-> NewPlayer(p = 0)],
                                                   shuffled),
                                     deck, match_type),
                      [played_cards |-> << >>, current_player |-> 0,
                       starting_player |-> 0, winner |-> 0],
                      ptype, deck, n)]

SearchAt(pos, shuffled, max_depth) ==
    /\ pos.trick.status = "play"
    /\ game.ptype[pos.trick.round.current_player] = "Computer"
    /\ players = pos.trick.players
    /\ round = pos.trick.round
    /\ match = [rounds |-> << >>, deck |-> pos.deck, match_type |-> pos.match_type,
                n_rounds |-> Len(shuffled) \div NumPlayers, winner |-> "Contra",
                last_round_winner |-> 0]
    /\ hist = [dealt |-> shuffled, last |-> pos.trick.last]
    /\ sim = [NoSim EXCEPT !.max_depth = max_depth,
                           !.entry = [valid |-> TRUE, players |-> pos.trick.players,
                                      round |-> pos.trick.round]]

SearchInit ==
    /\ game \in [deck_type : DeckTypes, ptype : PlayerTypeChoices,
                 n_matches : {1}, matches : {0}, swaps : {SearchSwaps}]
    /\ pc = "choose"
    /\ trk = [kind |-> "none", cards |-> << >>, start |-> 0,
              done |-> FALSE, wc |-> "", winner |-> NoWinner]
    /\ \E shuffled \in Shuffles(get_deck(game.deck_type), SearchSwaps),
          n \in 0 .. (NumPlayers - 1) :
          \E pos \in {position(game.ptype, game.deck_type, shuffled, n)},
             max_depth \in 0 .. SearchDepth :
             SearchAt(pos, shuffled, max_depth)

live_players_shared(pl, s) == [p \in Seats |-> [pl[p] EXCEPT !.hand = s.st.hands[p]]]

\* simulate: sim_pl is a clone of the players, which are borrowed immutably;
\* the live players after a step that left the search in s
live_players(pl, s) == pl

\* the state after a step of the search
Searched(s, status) ==
    /\ sim' = s
    /\ pc' = status
    /\ players' = live_players(players, s)
    /\ UNCHANGED <<game, match, round, hist, trk>>

\* ComputerPlayer::choose_card, `if possible_cards.len() == 1`
ChooseSingle ==
    /\ pc = "choose"
    /\ Len(players[round.current_player].hand) > 0
    /\ Len(filter_possible_cards(round.played_cards,
                                 players[round.current_player].hand)) = 1
    /\ Searched([sim EXCEPT !.choice =
                    choose_card_computer(players[round.current_player].hand,
                        filter_possible_cards(round.played_cards,
                                              players[round.current_player].hand),
                        match.deck, round, players)],
                "chosen")

\* ComputerPlayer::choose_card calls simulate, which calls minimax_broad: up
\* to the loop over the possible cards
Simulate ==
    /\ pc = "choose"
    /\ Len(filter_possible_cards(round.played_cards,
                                 players[round.current_player].hand)) > 1
    /\ LET team == [p \in Seats |-> players[p].team]
       IN  Searched([sim EXCEPT
                       !.possible_cards =
                           filter_possible_cards(round.played_cards,
                                                 players[round.current_player].hand),
                       !.team = team,
                       !.card_lut = dedup_cards(sort_cards(match.deck)),
                       !.st = [nodes |-> push_round_to_tree(round, team),
                               hands |-> [p \in Seats |-> players[p].hand],
                               status |-> "broad", score |-> 0],
                       !.i = 1, !.rank = 0,
                       !.best = get_initial_score_for_team(team[round.current_player])],
                    "broad")

\* the loop of minimax_broad with the card of the candidate left in the hand
BroadCandidate_keeps_hand ==
    /\ pc = "broad"
    /\ sim.i <= Len(sim.possible_cards)
    /\ LET c     == sim.possible_cards[sim.i]
           cp    == round.current_player
           nodes == Append(sim.st.nodes,
                           CardNode(c.rank, sim.team[cp], Len(sim.st.nodes), cp, << >>))
           hands == sim.st.hands
       IN  Searched([sim EXCEPT
                       !.st = [nodes |-> nodes, hands |-> hands, status |-> "run",
                               score |-> 0],
                       !.md = max_depth_eff(hands, sim.max_depth),
                       !.inl = Len(nodes) - 1],
                    "minimax")

\* minimax_broad, `for c in possible_cards`: the candidate is pushed to the
\* tree and taken from the hand; minimax up to its loop
BroadCandidate ==
    /\ pc = "broad"
    /\ sim.i <= Len(sim.possible_cards)
    /\ LET c     == sim.possible_cards[sim.i]
           cp    == round.current_player
           nodes == Append(sim.st.nodes,
                           CardNode(c.rank, sim.team[cp], Len(sim.st.nodes), cp, << >>))
           hands == [sim.st.hands EXCEPT ![cp] = remove_card_from_hand(@, c)]
       IN  Searched([sim EXCEPT
                       !.st = [nodes |-> nodes, hands |-> hands, status |-> "run",
                               score |-> 0],
                       !.md = max_depth_eff(hands, sim.max_depth),
                       !.inl = Len(nodes) - 1],
                    "minimax")

\* where the search stands after an iteration of the loop of minimax
AfterStep(st) == IF st.status \in {"run", "ret"} THEN "minimax" ELSE st.status

\* minimax, an iteration of the loop that takes the leaf branch
MinimaxLeaf ==
    /\ pc = "minimax"
    /\ sim.st.status = "run"
    /\ minimax_branch(sim.st, sim.md) = "leaf"
    /\ Searched([sim EXCEPT !.st = minimax_leaf(sim.st, sim.team, sim.card_lut)],
                AfterStep(minimax_leaf(sim.st, sim.team, sim.card_lut)))

\* minimax, an iteration of the loop that takes the reduce branch
MinimaxReduce ==
    /\ pc = "minimax"
    /\ sim.st.status = "run"
    /\ minimax_branch(sim.st, sim.md) = "reduce"
    /\ Searched([sim EXCEPT !.st = minimax_reduce(sim.st, sim.team, sim.card_lut,
                                                  sim.inl)],
                AfterStep(minimax_reduce(sim.st, sim.team, sim.card_lut, sim.inl)))

\* minimax, an iteration of the loop that takes the expand branch
MinimaxExpand ==
    /\ pc = "minimax"
    /\ sim.st.status = "run"
    /\ minimax_branch(sim.st, sim.md) = "expand"
    /\ Searched([sim EXCEPT !.st = minimax_expand(sim.st, sim.team, sim.card_lut,
                                                  2 * Len(sim.card_lut))],
                AfterStep(minimax_expand(sim.st, sim.team, sim.card_lut,
                                         2 * Len(sim.card_lut))))

\* minimax_broad, the rest of the loop body once minimax has returned
BroadFold ==
    /\ pc = "minimax"
    /\ sim.st.status = "ret"
    /\ LET bm == get_score_for_team(sim.best, sim.st.score, sim.rank,
                                    sim.possible_cards[sim.i].rank,
                                    sim.team[round.current_player])
       IN  Searched([sim EXCEPT !.rank = bm[1], !.best = bm[2], !.i = @ + 1,
                                !.scores = Append(@, sim.st.score),
                                !.st.status = "broad"],
                    "broad")

\* minimax_broad returns (best_move, best_score), simulate returns it
BroadReturn ==
    /\ pc = "broad"
    /\ sim.i > Len(sim.possible_cards)
    /\ Searched([sim EXCEPT !.st.status = "returned"], "returned")

\* ComputerPlayer::choose_card, the card of rank best_move
ChooseBest ==
    /\ pc = "returned"
    /\ Searched([sim EXCEPT !.choice =
                    best_move_card(sim.possible_cards,
                                   [status |-> "run", rank |-> sim.rank])],
                IF best_move_card(sim.possible_cards,
                                  [status |-> "run", rank |-> sim.rank]).status = "ok"
                THEN "chosen" ELSE "panic: best move")

SearchNext ==
    \/ ChooseSingle \/ Simulate \/ BroadCandidate
    \/ MinimaxLeaf \/ MinimaxReduce \/ MinimaxExpand
    \/ BroadFold \/ BroadReturn \/ ChooseBest

SpecSearch == SearchInit /\ [][SearchNext]_vars

(***************************************************************************)
(* Properties of a search (SpecSearch).                                    *)
(***************************************************************************)
\* the score of the leaf on top of nodes
full_leaf(nodes, hands, team, card_lut) ==
    LET st == minimax_leaf([nodes |-> nodes, hands |-> hands, status |-> "run",
                            score |-> 0], team, card_lut)
    IN  st.nodes[Len(st.nodes)].score

RECURSIVE full_minimax(_, _, _, _, _)
RECURSIVE full_children(_, _, _, _, _, _, _, _)

\* the optimum, for the team of the player of the node on top of nodes, of the
\* scores of all the children with the ranks ctp, folded into acc
full_children(nodes, hands, team, card_lut, md, next_player, ctp, acc) ==
    IF Len(ctp) = 0 THEN acc
    ELSE LET rank         == ctp[Len(ctp)]
             current_node == nodes[Len(nodes)]
             child        == CardNode(rank, team[next_player], current_node.depth + 1,
                                      next_player, << >>)
         IN  full_children(nodes, hands, team, card_lut, md, next_player, Front(ctp),
                get_score_for_team(acc,
                    full_minimax(Append(nodes, child),
                                 [hands EXCEPT ![next_player] =
                                     remove_card_from_hand(@, card_lut[rank])],
                                 team, card_lut, md),
                    0, 0, team[current_node.current_player])[2])

\* the children of the node on top of nodes are the cards next_player may play
full_expand(nodes, hands, team, card_lut, md, played_cards, next_player) ==
    full_children(nodes, hands, team, card_lut, md, next_player,
                  IF Len(played_cards) = NumPlayers
                  THEN Ranks(hands[next_player])
                  ELSE Ranks(filter_possible_cards(played_cards, hands[next_player])),
                  get_initial_score_for_team(team[nodes[Len(nodes)].current_player]))

full_trick(nodes, hands, team, card_lut, md, played_cards) ==
    full_expand(nodes, hands, team, card_lut, md, played_cards,
                next_player_of(played_cards, nodes[Len(nodes)].current_player))

\* a full minimax over the tree minimax walks, by recursion on the tree and
\* with no sibling left out: the score of the node on top of nodes
full_minimax(nodes, hands, team, card_lut, md) ==
    IF nodes[Len(nodes)].depth = md
    THEN full_leaf(nodes, hands, team, card_lut)
    ELSE full_trick(nodes, hands, team, card_lut, md,
                    played_in_trick(Front(nodes), nodes[Len(nodes)], card_lut))

\* the best of the full minimax scores of the candidates from the i-th on
RECURSIVE full_broad(_, _, _, _, _, _, _, _)
full_broad(possible_cards, i, best, nodes, hands, team, max_depth, card_lut) ==
    IF i > Len(possible_cards) THEN best
    ELSE LET c  == possible_cards[i]
             cp == round.current_player
             h  == [hands EXCEPT ![cp] = remove_card_from_hand(@, c)]
         IN  full_broad(possible_cards, i + 1,
                get_score_for_team(best,
                    full_minimax(Append(nodes, CardNode(c.rank, team[cp], Len(nodes),
                                                        cp, << >>)),
                                 h, team, card_lut, max_depth_eff(h, max_depth)),
                    0, 0, team[cp])[2],
                nodes, hands, team, max_depth, card_lut)

\* minimax_broad has returned to simulate
Returned == sim.st.status = "returned"

\* C3: alpha-beta equivalence: the score minimax_broad returns with its pruning
\* is the score of a full minimax over the same tree in which no sibling is
\* pruned, for every position and max_depth.
C3_AlphaBetaEquivalence ==
    Returned =>
        sim.best = full_broad(sim.possible_cards, 1,
                              get_initial_score_for_team(sim.team[round.current_player]),
                              push_round_to_tree(round, sim.team),
                              [p \in Seats |-> players[p].hand], sim.team,
                              sim.max_depth, sim.card_lut)

\* number of cards equal to c in a hand
CountCard(hand, c) == Cardinality({k \in 1 .. Len(hand) : hand[k] = c})

\* two hands are the same multiset of cards
SameCards(a, b) ==
    /\ Len(a) = Len(b)
    /\ \A k \in 1 .. Len(a) : CountCard(a, a[k]) = CountCard(b, a[k])

\* C4: undo correctness: when minimax_broad returns, the hand of every
\* simulated player is the same multiset of cards as when it was entered.
C4_UndoCorrectness ==
    Returned =>
        \A p \in Seats : SameCards(sim.st.hands[p], sim.entry.players[p].hand)

\* minimax_broad has returned and a hand is in another order than at entry
C4_Witness ==
    /\ Returned
    /\ \E p \in Seats : sim.st.hands[p] # sim.entry.players[p].hand

\* C6: a search leaves the live match untouched: from the call of choose_card
\* on, through simulate, the players (hand, won cards, serve mask, team,
\* dealer and beginner flags) and the round are as they were at the call.
C6_SearchLeavesLiveMatch ==
    sim.entry.valid => (players = sim.entry.players /\ round = sim.entry.round)

\* the search is under way and a simulated hand differs from the live hand
C6_Witness ==
    /\ pc = "minimax"
    /\ Len(sim.st.nodes) > Len(round.played_cards) + 1
    /\ \E p \in Seats : Len(sim.st.hands[p]) < Len(players[p].hand)

\* the loop of minimax is running on a candidate's subtree
SearchRunning == pc = "minimax" /\ sim.st.status = "run"

\* an iteration of the loop leaves the tree and the hands as they were: the
\* loop is deterministic, so from here it iterates for ever
LoopStuck ==
    /\ SearchRunning
    /\ minimax_step(sim.st, sim.team, sim.card_lut, sim.md, sim.inl,
                    2 * Len(sim.card_lut)) = sim.st

\* the loop of minimax was left by a panic instead of a return
LoopPanicked ==
    pc \in {"panic: leaf", "panic: lut", "panic: Invalid score",
            "panic: No possible cards", "panic: remove", "panic: winner"}

\* C23: for every position and every max_depth the loop of minimax ends by
\* returning the score of the candidate node: it never panics and never comes
\* to an iteration that changes nothing
C23_SearchTerminates == ~LoopStuck /\ ~LoopPanicked

\* the node on top of the stack has just been given its score as a leaf
LeafScored ==
    /\ pc = "minimax"
    /\ sim.st.status = "run"
    /\ Len(sim.st.nodes) > 0
    /\ sim.st.nodes[Len(sim.st.nodes)].depth = sim.md
    /\ sim.st.nodes[Len(sim.st.nodes)].visited
    /\ Len(sim.st.nodes[Len(sim.st.nodes)].cards_to_play) = 0

\* the cards of the line of play down to and including the node on top
LineCards == [i \in 1 .. Len(sim.st.nodes) |-> sim.card_lut[sim.st.nodes[i].rank]]

\* eyes of the completed tricks won by Re minus those won by Contra, the first
\* trick led by starter and each later one by the winner of the trick before
RECURSIVE LineScore(_, _, _)
LineScore(cards, starter, team) ==
    IF Len(cards) < NumPlayers THEN 0
    ELSE LET trick  == SubSeq(cards, 1, NumPlayers)
             winner == determine_winner(trick, starter)
         IN  (IF team[winner] = "Re" THEN SumEyes(trick) ELSE 0 - SumEyes(trick))
             + LineScore(SubSeq(cards, NumPlayers + 1, Len(cards)), winner, team)

\* C30: the score given to a node at the depth limit is the eyes of all tricks
\* won by Re minus the eyes of all tricks won by Contra, over every completed
\* trick of the simulated line from the first card of the current trick
\* through the leaf's own card
C30_LeafScore ==
    LeafScored =>
        sim.st.nodes[Len(sim.st.nodes)].score
            = LineScore(LineCards, sim.st.nodes[1].current_player, sim.team)

\* the team of the player the search chooses a card for
ActingTeam == sim.team[round.current_player]

\* candidate i has the returned rank and the returned score, no candidate has a
\* better score for the acting team, and no earlier candidate has the same
IsFirstOptimum(i) ==
    /\ sim.possible_cards[i].rank = sim.rank
    /\ sim.scores[i] = sim.best
    /\ \A j \in 1 .. Len(sim.scores) :
          IF ActingTeam = "Re" THEN sim.scores[j] <= sim.best
                               ELSE sim.scores[j] >= sim.best
    /\ \A j \in 1 .. (i - 1) : sim.scores[j] # sim.best

\* C31: minimax_broad returns the rank of one of the candidate cards with that
\* candidate's subtree score, the maximum over the candidates for Re and the
\* minimum for Contra, the first candidate among equal optima; choose_card
\* finds a legal card with the returned rank
C31_BestMoveSelection ==
    /\ Returned =>
          /\ Len(sim.scores) = Len(sim.possible_cards)
          /\ \E i \in 1 .. Len(sim.possible_cards) : IsFirstOptimum(i)
    /\ pc # "panic: best move"
    /\ pc = "chosen" /\ Len(sim.possible_cards) > 1 =>
          /\ sim.choice.status = "ok"
          /\ sim.choice.card.rank = sim.rank
          /\ \E k \in 1 .. Len(sim.possible_cards) :
                sim.possible_cards[k] = sim.choice.card

\* the search returned where two candidates of different rank share the
\* optimum, and the card was chosen
C31_Witness ==
    /\ pc = "chosen"
    /\ \E i \in 1 .. Len(sim.scores) : \E j \in 1 .. Len(sim.scores) :
          /\ i < j
          /\ sim.scores[i] = sim.best /\ sim.scores[j] = sim.best
          /\ sim.possible_cards[i].rank # sim.possible_cards[j].rank

\* the next iteration of the loop reduces the node on top into its parent
ReducedIntoParent ==
    /\ SearchRunning
    /\ minimax_branch(sim.st, sim.md) = "reduce"
    /\ Len(sim.st.nodes) - 1 > sim.inl

\* C32: every node reduced into its parent carries a finite score: its initial
\* score, i32::MIN or i32::MAX, has been replaced by a leaf score or a child's
\* score, and the "Invalid score" panic of minimax is not reached
C32_ReducedScoreFinite ==
    /\ ReducedIntoParent =>
          sim.st.nodes[Len(sim.st.nodes)].score \notin {I32_MIN, I32_MAX}
    /\ pc # "panic: Invalid score"

\* a node that got its score from a child is reduced into its parent
C32_Witness ==
    /\ ReducedIntoParent
    /\ sim.st.nodes[Len(sim.st.nodes)].depth < sim.md

\* an iteration of the loop reduces the node on top into its parent
ReduceStep ==
    /\ ReducedIntoParent
    /\ sim'.st.status = "run"
    /\ Len(sim'.st.nodes) = Len(sim.st.nodes) - 1

\* C33: after a child is reduced into its parent, the parent's remaining
\* cards_to_play are cleared if the player of the parent node is Contra and
\* left as they were if that player is Re
C33_PruningByRole ==
    [][ReduceStep =>
          IF sim.team[sim.st.nodes[Len(sim.st.nodes) - 1].current_player] = "Contra"
          THEN sim'.st.nodes[Len(sim'.st.nodes)].cards_to_play = << >>
          ELSE sim'.st.nodes[Len(sim'.st.nodes)].cards_to_play
                   = sim.st.nodes[Len(sim.st.nodes) - 1].cards_to_play]_vars

\* a node of a Re player has had a child reduced into it and still has cards to
\* play, below it a node of a Contra player
C33_Witness ==
    /\ SearchRunning
    /\ Len(sim.st.nodes) > sim.inl + 2
    /\ sim.team[sim.st.nodes[Len(sim.st.nodes)].current_player] = "Re"
    /\ sim.st.nodes[Len(sim.st.nodes)].visited
    /\ sim.st.nodes[Len(sim.st.nodes)].score # I32_MIN
    /\ Len(sim.st.nodes[Len(sim.st.nodes)].cards_to_play) > 0
    /\ sim.team[sim.st.nodes[Len(sim.st.nodes) - 1].current_player] = "Contra"

\* the next iteration expands the node on top for the first time
FirstExpansion ==
    /\ SearchRunning
    /\ minimax_branch(sim.st, sim.md) = "expand"
    /\ Len(sim.st.nodes[Len(sim.st.nodes)].cards_to_play) = 0

\* the search after its next iteration
AfterIteration ==
    minimax_step(sim.st, sim.team, sim.card_lut, sim.md, sim.inl, 2 * Len(sim.card_lut))

\* C36: in a search started with max_depth 8 and at least two legal cards,
\* every node that is expanded for the first time gets at least one card to
\* play: the "No possible cards" panic is not reached
C36_NoEmptyExpansion ==
    sim.max_depth = SearchDepth =>
        /\ pc # "panic: No possible cards"
        /\ FirstExpansion =>
              /\ AfterIteration.status = "run"
              /\ Len(AfterIteration.nodes[Len(sim.st.nodes)].cards_to_play) > 0

\* a node that completes a trick is expanded for the first time in a search
\* with max_depth 8 and three cards on the table
C36_Witness ==
    /\ sim.max_depth = SearchDepth
    /\ FirstExpansion
    /\ Len(round.played_cards) = NumPlayers - 1
    /\ Len(sim.st.nodes) = NumPlayers

\* the number of cards of rank r in the hands
RankInHands(hands, r) ==
    Cardinality({<<p, i>> \in Seats \X (1 .. SumLen(hands, Seats)) :
                    i <= Len(hands[p]) /\ hands[p][i].rank = r})

\* the number of nodes of rank r above the history of the current trick
RankOnStack(nodes, inl, r) ==
    Cardinality({i \in 1 .. Len(nodes) : i > inl /\ nodes[i].rank = r})

\* C37: at the start of every iteration of the loop of minimax the cards of
\* each rank in the simulated hands and on the stack above the history of the
\* current trick are the cards of that rank in the hands at entry to
\* minimax_broad, and no removal of a card from a simulated hand fails
C37_CardConservation ==
    /\ pc # "panic: remove"
    /\ SearchRunning =>
          \A r \in 1 .. Len(sim.card_lut) :
              RankInHands(sim.st.hands, r) + RankOnStack(sim.st.nodes, sim.inl, r)
                  = RankInHands([p \in Seats |-> sim.entry.players[p].hand], r)

\* an iteration starts with cards of two seats on the stack above a history
\* of two cards, after all the cards played below them were given back
C37_Witness ==
    /\ SearchRunning
    /\ sim.inl = 2
    /\ Len(sim.st.nodes) >= sim.inl + 2
    /\ sim.st.nodes[Len(sim.st.nodes)].visited
    /\ Len(sim.st.nodes[Len(sim.st.nodes)].cards_to_play) = 0
    /\ sim.st.nodes[Len(sim.st.nodes)].depth < sim.md

\* C40: every node on the search stack has a depth equal to its index in the
\* stack, the first card of the current trick having depth 0; so the nodes
\* below a node are as many as its depth and depth mod NumPlayers of them
\* are the cards already in its trick
C40_DepthIsStackPosition ==
    /\ \A i \in 1 .. Len(sim.st.nodes) : sim.st.nodes[i].depth = i - 1
    /\ SearchRunning =>
          LET current_node == sim.st.nodes[Len(sim.st.nodes)]
          IN  /\ Len(Front(sim.st.nodes)) = current_node.depth
              /\ Len(played_in_trick(Front(sim.st.nodes), current_node, sim.card_lut))
                     = (current_node.depth % NumPlayers) + 1

\* an iteration starts with a node of the second trick on top of a history
\* of the current trick
C40_Witness ==
    /\ SearchRunning
    /\ sim.inl > 0
    /\ Len(sim.st.nodes) > NumPlayers + 1

(***************************************************************************)
(* SpecTrick: the trick logic as pure functions.  Init draws the input, a  *)
(* triple (self, first_card, other) of Card values for winning_card, a     *)
(* complete trick with its starting seat for determine_winner, or an open  *)
(* trick and a hand for filter_possible_cards; the actions apply the       *)
(* function.                                                               *)
(***************************************************************************)
\* every Card value over the suits, the trump flag and ranks 1 .. MaxRank
GenericCards ==
    {Card(s, "Ace", 11, t, r) : s \in Suits, t \in BOOLEAN, r \in 1 .. MaxRank}

\* the cards of the WithNines deck with their Normal values
TrickCards == {CatalogRows(2, 1)[i] : i \in 1 .. Len(CatalogRows(2, 1))}

\* complete tricks: NumPlayers cards, none more often than the deck holds it
Tricks ==
    {t \in [1 .. NumPlayers -> TrickCards] :
        \A c \in TrickCards : Cardinality({i \in 1 .. NumPlayers : t[i] = c}) <= 2}

\* the cards lying in a trick that is not complete, at most MaxOpen of them
OpenTricks == UNION {[1 .. n -> TrickCards] : n \in 0 .. MaxOpen}

\* the hands of at most MaxHand cards
Hands == UNION {[1 .. n -> TrickCards] : n \in 0 .. MaxHand}

\* the largest rank a rule catalog of the lookup inputs gives to a card
MaxLutRank == 4

\* the rows of a rule catalog of three cards: (suit, face), eyes and trump
LutRows ==
    << [suit |-> "Clubs", face |-> "Queen", eyes |-> 3, trump |-> TRUE],
       [suit |-> "Hearts", face |-> "Ace", eyes |-> 11, trump |-> FALSE],
       [suit |-> "Hearts", face |-> "Nine", eyes |-> 0, trump |-> FALSE] >>

\* the rule catalogs that give each row a rank of its own in 1 .. MaxLutRank
LutCatalogs ==
    {[i \in 1 .. Len(LutRows) |->
         Card(LutRows[i].suit, LutRows[i].face, LutRows[i].eyes, LutRows[i].trump, f[i])] :
        f \in {g \in [1 .. Len(LutRows) -> 1 .. MaxLutRank] :
                  \A i, j \in 1 .. Len(LutRows) : i # j => g[i] # g[j]}}

TrickInput ==
    \/ \E a \in GenericCards, b \in GenericCards, c \in GenericCards :
          trk = [kind |-> "triple", cards |-> <<a, b, c>>, start |-> 0,
                 done |-> FALSE, wc |-> "", winner |-> NoWinner]
    \/ \E t \in Tricks, s \in Seats :
          trk = [kind |-> "trick", cards |-> t, start |-> s,
                 done |-> FALSE, wc |-> "", winner |-> NoWinner]
    \/ \E t \in OpenTricks, h \in Hands :
          trk = [kind |-> "filter", cards |-> t, hand |-> h,
                 done |-> FALSE, possible_cards |-> << >>]
    \/ \E t \in Tricks \cup (OpenTricks \ {<< >>}), s \in Seats :
          trk = [kind |-> "next", cards |-> t, current_player |-> s,
                 done |-> FALSE, next_player |-> NoWinner]
    \/ \E rows \in LutCatalogs, i \in 1 .. Len(LutRows) :
          trk = [kind |-> "lut", cards |-> Doubled(rows), rank |-> rows[i].rank,
                 done |-> FALSE, found |-> [status |-> "", card |-> NoCard]]

TrickInit ==
    /\ game = [deck_type |-> "Tournament", ptype |-> [p \in Seats |-> "Human"],
               n_matches |-> 1, matches |-> 0, swaps |-> 0]
    /\ players = [p \in Seats |-> NewPlayer(p = 0)]
    /\ match = [rounds |-> << >>, deck |-> << >>, match_type |-> "Normal",
                n_rounds |-> 0, winner |-> "Contra", last_round_winner |-> 0]
    /\ round = [played_cards |-> << >>, current_player |-> 0,
                starting_player |-> 0, winner |-> 0]
    /\ pc = "trick"
    /\ hist = [dealt |-> << >>, last |-> NoPlay]
    /\ sim = NoSim
    /\ TrickInput

\* cards[1].winning_card(&cards[2], &cards[3])
ApplyWinningCard ==
    /\ trk.kind = "triple" /\ ~trk.done
    /\ trk' = [trk EXCEPT !.done = TRUE,
                          !.wc = winning_card(trk.cards[1], trk.cards[2], trk.cards[3])]
    /\ UNCHANGED <<game, players, match, round, pc, hist, sim>>

\* Round::determine_winner(&cards, start)
ApplyDetermineWinner ==
    /\ trk.kind = "trick" /\ ~trk.done
    /\ trk' = [trk EXCEPT !.done = TRUE,
                          !.winner = determine_winner(trk.cards, trk.start)]
    /\ UNCHANGED <<game, players, match, round, pc, hist, sim>>

\* Round::filter_possible_cards(&cards, &hand)
ApplyFilterPossibleCards ==
    /\ trk.kind = "filter" /\ ~trk.done
    /\ trk' = [trk EXCEPT !.done = TRUE,
                          !.possible_cards = filter_possible_cards(trk.cards, trk.hand)]
    /\ UNCHANGED <<game, players, match, round, pc, hist, sim>>

\* minimax, expand branch: the next player after the node of seat
\* current_player, whose card is the last of `cards`
ApplyNextPlayer ==
    /\ trk.kind = "next" /\ ~trk.done
    /\ trk' = [trk EXCEPT !.done = TRUE,
                          !.next_player = next_player_of(trk.cards,
                                                         trk.current_player)]
    /\ UNCHANGED <<game, players, match, round, pc, hist, sim>>

\* simulate builds card_lut from the deck `cards`; minimax looks up the card
\* of a node of rank `rank`
ApplyLookup ==
    /\ trk.kind = "lut" /\ ~trk.done
    /\ trk' = [trk EXCEPT !.done = TRUE,
                          !.found = lut_lookup(card_lut_of(trk.cards), trk.rank)]
    /\ UNCHANGED <<game, players, match, round, pc, hist, sim>>

TrickNext ==
    \/ ApplyWinningCard \/ ApplyDetermineWinner \/ ApplyFilterPossibleCards
    \/ ApplyNextPlayer \/ ApplyLookup

SpecTrick == TrickInit /\ [][TrickNext]_vars

(***************************************************************************)
(* Properties of the trick logic (SpecTrick).                              *)
(***************************************************************************)
\* a trick whose winner has been computed
TrickDone == trk.kind = "trick" /\ trk.done

\* Rust index in the trick of the card played by the seat `winner`
WinnerOffset == (trk.winner - trk.start + NumPlayers) % NumPlayers

WinnerCard == trk.cards[WinnerOffset + 1]

\* C7: determine_winner never names a card as winner when another card of the
\* same trick serves it (both trump, or both non-trump of one suit) and has a
\* strictly higher rank.
C7_HigherRankBeatsLower ==
    TrickDone =>
        ~ \E i \in 1 .. NumPlayers :
            /\ Serves(WinnerCard, trk.cards[i])
            /\ trk.cards[i].rank > WinnerCard.rank

\* C8: in a complete trick whose leading card is non-trump and in which a trump
\* was played, determine_winner returns the seat of a player who played a trump.
C8_TrumpBeatsPlainLead ==
    (TrickDone /\ ~trk.cards[1].trump /\ \E i \in 1 .. NumPlayers : trk.cards[i].trump)
        => \E i \in 1 .. NumPlayers :
              /\ trk.cards[i].trump
              /\ trk.winner = (trk.start + (i - 1)) % NumPlayers

\* a trump played last onto a plain lead takes the trick from a seat other than 0
C8_Witness ==
    /\ TrickDone /\ trk.start = 2
    /\ \A i \in 1 .. (NumPlayers - 1) : ~trk.cards[i].trump
    /\ trk.cards[NumPlayers].trump
    /\ trk.winner = (2 + NumPlayers - 1) % NumPlayers

\* C9: when the winning card was played twice, determine_winner returns the seat
\* of the earlier copy: no card played before the winner's card has its rank.
C9_EarlierCopyWins ==
    TrickDone =>
        /\ trk.winner \in Seats
        /\ \A i \in 1 .. NumPlayers :
              trk.cards[i].rank = WinnerCard.rank => WinnerOffset + 1 <= i

\* both copies of the highest trump are in the trick and the first one wins
C9_Witness ==
    /\ TrickDone
    /\ \E i, j \in 1 .. NumPlayers :
          /\ i < j
          /\ trk.cards[i] = trk.cards[j]
          /\ trk.cards[i].trump
          /\ \A k \in 1 .. NumPlayers : trk.cards[k].rank <= trk.cards[i].rank
          /\ WinnerOffset + 1 = i

\* the three rules of pair_vs_first (spec section 4.2)
PairVsFirst(first, candidate, challenger) ==
    LET cs == Serves(first, candidate)
        os == Serves(first, challenger)
    IN  IF ~cs /\ ~os THEN "FirstWins"
        ELSE IF cs /\ ~os
             THEN IF challenger.trump /\ ~candidate.trump THEN "OtherWins" ELSE "SelfWins"
        ELSE IF ~cs /\ os
             THEN IF candidate.trump /\ ~challenger.trump THEN "SelfWins" ELSE "OtherWins"
        ELSE IF challenger.rank > candidate.rank THEN "OtherWins" ELSE "SelfWins"

\* C10: winning_card(candidate, first, challenger) equals the three rules for
\* every triple of cards.
C10_WinningCardTable ==
    (trk.kind = "triple" /\ trk.done)
        => trk.wc = PairVsFirst(trk.cards[2], trk.cards[1], trk.cards[3])

\* exactly one of the two serves and the non-serving trump wins
C10_Witness ==
    /\ trk.kind = "triple" /\ trk.done
    /\ Serves(trk.cards[2], trk.cards[1])
    /\ ~Serves(trk.cards[2], trk.cards[3])
    /\ trk.cards[3].trump
    /\ trk.wc = "OtherWins"

\* filter_possible_cards has been applied to a trick and a hand
Filtered == trk.kind = "filter" /\ trk.done

\* the cards of a hand that serve the card lead, in the order of the hand
ServingCards(lead, hand) == SelectSeq(hand, LAMBDA c : Serves(lead, c))

\* a is a sub-multiset of b
SubCards(a, b) == \A k \in 1 .. Len(a) : CountCard(a, a[k]) <= CountCard(b, a[k])

\* C21: filter_possible_cards(trick, hand) is the whole hand when the trick is
\* empty; otherwise the cards of the hand that serve the leading card, or the
\* whole hand if none does; so it is always a sub-multiset of the hand, and
\* not empty when the hand is not empty
C21_FilterPossibleCards ==
    Filtered =>
        /\ trk.possible_cards =
              IF trk.cards = << >> THEN trk.hand
              ELSE IF ServingCards(trk.cards[1], trk.hand) = << >> THEN trk.hand
              ELSE ServingCards(trk.cards[1], trk.hand)
        /\ SubCards(trk.possible_cards, trk.hand)
        /\ trk.hand # << >> => trk.possible_cards # << >>

\* the filter has kept the serving cards of a hand that also holds a card that
\* does not serve, two copies of the same card among them
C21_Witness ==
    /\ Filtered
    /\ Len(trk.cards) = MaxOpen
    /\ Len(trk.hand) = MaxHand
    /\ Len(trk.possible_cards) = 2
    /\ trk.possible_cards[1] = trk.possible_cards[2]

\* the filter has returned the whole hand of a player that cannot serve
C21_WitnessVoid ==
    /\ Filtered
    /\ trk.cards # << >>
    /\ Len(trk.hand) = MaxHand
    /\ trk.possible_cards = trk.hand
    /\ \A k \in 1 .. Len(trk.hand) : ~Serves(trk.cards[1], trk.hand[k])

\* the next player of the search has been computed for the cards of a trick
NextPlayerComputed == trk.kind = "next" /\ trk.done

\* the seat that played the first of the cards, the last of which was played
\* by seat last: the seats of a trick follow each other
RealStarter(cards, last) == (last + NumPlayers * Len(cards) - (Len(cards) - 1)) % NumPlayers

\* C29: when a node's card completes a trick of |players| cards, the player of
\* the child nodes is the winner of that trick, computed with the seat that
\* played the trick's first card as starter; otherwise it is
\* (current_player + 1) mod |players|; for every seat of the node's player
C29_NextPlayerInSearch ==
    NextPlayerComputed =>
        trk.next_player =
            IF Len(trk.cards) = NumPlayers
            THEN determine_winner(trk.cards, RealStarter(trk.cards, trk.current_player))
            ELSE (trk.current_player + 1) % NumPlayers

\* C35: winning_card returns Some(..) for every triple of cards, and
\* determine_winner does not reach its "Invalid card configuration" panic for
\* any sequence of played cards
C35_NoIllegalConfiguration ==
    /\ trk.kind = "triple" /\ trk.done => trk.wc \in {"FirstWins", "SelfWins", "OtherWins"}
    /\ trk.kind = "trick" /\ trk.done => trk.winner \in Seats

\* winning_card was applied to a plain card that serves the first card and a
\* trump that does not
C35_Witness ==
    /\ trk.kind = "triple" /\ trk.done
    /\ ~trk.cards[1].trump /\ ~trk.cards[2].trump /\ trk.cards[3].trump
    /\ trk.cards[1].suit = trk.cards[2].suit

\* C38: for every rule catalog whose ranks are unique per (suit, face) and lie
\* in 1..64, the card the search looks up for a rank of the deck exists and
\* has that rank
C38_RankLookup ==
    trk.kind = "lut" /\ trk.done =>
        /\ trk.found.status = "ok"
        /\ trk.found.card.rank = trk.rank

\* a catalog with the ranks 1 .. 3: every lookup finds the card of the rank
LookupWithContiguousRanks ==
    /\ trk.kind = "lut" /\ trk.done
    /\ {trk.cards[i].rank : i \in 1 .. Len(trk.cards)} = 1 .. Len(LutRows)
    => /\ trk.found.status = "ok"
       /\ trk.found.card \in {trk.cards[i] : i \in 1 .. Len(trk.cards)}
       /\ trk.found.card.rank = trk.rank

(***************************************************************************)
(* SpecTeam: the team and score logic as pure functions.  Init draws       *)
(* either the calls of the players and a deal, for the election of the     *)
(* match type and get_team_for_player, or the teams and the won cards of   *)
(* the players at the end of a match, for Match::determine_winner; the     *)
(* actions apply the functions.                                            *)
(***************************************************************************)
\* the calls a player is given in SpecTeam
TeamCalls == {"Normal", "QueenSolo", "Fleshless"}

\* Match::determine_match_type, the maximum of the calls taken in playing
\* order from the beginner b_idx (MatchType derives Ord in declaration order)
elected_call(calls, b_idx) ==
    LET called == {calls[(b_idx + i) % NumPlayers] : i \in 0 .. (NumPlayers - 1)}
    IN  CHOOSE c \in called : \A o \in called : MatchTypeOrd(o) <= MatchTypeOrd(c)

\* seat of the beginner
BeginnerSeat == CHOOSE p \in Seats : players[p].beginner

\* the won-card piles after n_rounds tricks: the cards at the positions
\* first_trick of the deck went to seat w1, the other cards to seat w2
won_piles(deck, first_tr, w1, w2) ==
    LET t1 == SelectSeq([i \in 1 .. Len(deck) |-> [c |-> deck[i], in |-> i \in first_tr]],
                        LAMBDA e : e.in)
        t2 == SelectSeq([i \in 1 .. Len(deck) |-> [c |-> deck[i], in |-> i \in first_tr]],
                        LAMBDA e : ~e.in)
        cards(t) == [k \in 1 .. Len(t) |-> t[k].c]
    IN  [p \in Seats |-> (IF p = w1 THEN cards(t1) ELSE << >>)
                         \o (IF p = w2 THEN cards(t2) ELSE << >>)]

\* the teams a match can have made: everybody Contra, or one or two Re players
TeamChoices ==
    {t \in [Seats -> {"Re", "Contra"}] : Cardinality({p \in Seats : t[p] = "Re"}) <= 2}

TeamInput ==
    \/ \E calls \in [Seats -> TeamCalls], b \in Seats,
          shuffled \in Shuffles(get_deck("Tournament"), SearchSwaps) :
          /\ trk = [kind |-> "team", calls |-> calls]
          /\ players = [p \in Seats |->
                          [NewPlayer(p = (b + NumPlayers - 1) % NumPlayers) EXCEPT
                              !.beginner = (p = b),
                              !.hand = distribute_cards(shuffled)[p]]]
          /\ pc = "call"
    \/ \E team \in TeamChoices, w1 \in Seats, w2 \in Seats,
          first_tr \in {s \in SUBSET (1 .. 2 * NumPlayers) : Cardinality(s) = NumPlayers} :
          /\ trk = [kind |-> "score", calls |-> [p \in Seats |-> "Normal"]]
          /\ players = [p \in Seats |->
                          [NewPlayer(p = 0) EXCEPT
                              !.team = team[p],
                              !.won_cards =
                                  won_piles(get_card_values(<< >>, "Normal", "Tournament"),
                                            first_tr, w1, w2)[p]]]
          /\ pc = "score"

TeamInit ==
    /\ game = [deck_type |-> "Tournament", ptype |-> [p \in Seats |-> "Human"],
               n_matches |-> 1, matches |-> 0, swaps |-> 0]
    /\ match = [rounds |-> << >>, deck |-> << >>, match_type |-> "Normal",
                n_rounds |-> 0, winner |-> "Contra", last_round_winner |-> 0]
    /\ round = [played_cards |-> << >>, current_player |-> 0,
                starting_player |-> 0, winner |-> 0]
    /\ hist = [dealt |-> << >>, last |-> NoPlay]
    /\ sim = NoSim
    /\ TeamInput

\* Match::determine_match_type on the calls drawn
ElectMatchType ==
    /\ pc = "call"
    /\ match' = [match EXCEPT !.match_type = elected_call(trk.calls, BeginnerSeat)]
    /\ pc' = "team"
    /\ UNCHANGED <<game, players, round, hist, trk, sim>>

\* PlayerBehav::set_my_team for every player
SetMyTeam ==
    /\ pc = "team"
    /\ players' = [p \in Seats |->
                      [players[p] EXCEPT
                          !.team = get_team_for_player(players[p].hand, match.match_type)]]
    /\ pc' = "teams"
    /\ UNCHANGED <<game, match, round, hist, trk, sim>>

\* Match::determine_winner(players)
ApplyMatchWinner ==
    /\ pc = "score"
    /\ match' = [match EXCEPT !.winner = match_winner(players)]
    /\ pc' = "scored"
    /\ UNCHANGED <<game, players, round, hist, trk, sim>>

TeamNext == ElectMatchType \/ SetMyTeam \/ ApplyMatchWinner

SpecTeam == TeamInit /\ [][TeamNext]_vars

(***************************************************************************)
(* Properties of the team and score logic (SpecTeam).                      *)
(***************************************************************************)
\* the winner of a match has been computed from the teams and won cards
Scored == pc = "scored"

\* C16: the winner of a match is Contra if and only if the eye score of Contra
\* is greater than or equal to the eye score of Re; otherwise it is Re
C16_MatchWinner ==
    Scored =>
        /\ match.winner \in {"Re", "Contra"}
        /\ match.winner = "Contra"
              <=> get_team_score(players, "Contra") >= get_team_score(players, "Re")

\* equal, positive eye scores and Contra as the winner
C16_Witness ==
    /\ Scored
    /\ get_team_score(players, "Contra") = get_team_score(players, "Re")
    /\ get_team_score(players, "Re") > 0
    /\ match.winner = "Contra"

\* the teams have been set for the match type elected from the calls
TeamsElected == pc = "teams"

\* C18: in a Solo or Fleshless match the player whose call was elected is Re
\* and every other player is Contra
C18_SoloTeams ==
    (TeamsElected /\ match.match_type # "Normal") =>
        \E p \in Seats :
            /\ trk.calls[p] = match.match_type
            /\ players[p].team = "Re"
            /\ \A q \in Seats \ {p} : players[q].team = "Contra"

(***************************************************************************)
(* SpecRedist: simulation::redistribute_unknown_cards at a position of the *)
(* first trick.  players and round are the arguments of the call, trk      *)
(* holds its local variables, hist the hands before the call.              *)
(***************************************************************************)
MaxRetries == 2
PoolSwaps == 1

\* SimulatedPlayer::get_num_cards for every player
num_cards_of(pl) == [p \in Seats |-> Len(pl[p].hand)]

\* the hands of the players other than cp, drained in seat order and flattened
RECURSIVE drained_cards(_, _, _)
drained_cards(pl, cp, i) ==
    IF i >= NumPlayers THEN << >>
    ELSE (IF i # cp THEN pl[i].hand ELSE << >>) \o drained_cards(pl, cp, i + 1)

\* `opc` after opc.sort()
other_players_cards(pl, cp) == sort_cards(drained_cards(pl, cp, 0))

\* the players once the hands of the others are drained (or cleared)
cleared_players(pl, cp) ==
    [p \in Seats |-> IF p # cp THEN [pl[p] EXCEPT !.hand = << >>] ELSE pl[p]]

\* a mask that is never consulted: every pool card may be held
may_hold_ranks_any(serve_flags, opc) == Ranks(opc)

\* the ranks of the pool cards whose serving class is still set in the mask
RECURSIVE may_hold_ranks(_, _)
may_hold_ranks(serve_flags, opc) ==
    IF Len(opc) = 0 THEN << >>
    ELSE may_hold_ranks(serve_flags, Front(opc)) \o
         (IF FlagSet(serve_flags, flag_for_card(opc[Len(opc)]))
          THEN << opc[Len(opc)].rank >> ELSE << >>)

\* `subsets`: for every player the ranks of the pool it may get
subsets_of(pl, opc) == [p \in Seats |-> may_hold_ranks(pl[p].serve_flags, opc)]

\* slice::binary_search(&rank).is_ok() on s[lo .. hi] (TLA+ indices, hi exclusive)
RECURSIVE binary_search(_, _, _, _)
binary_search(s, rank, lo, hi) ==
    IF lo >= hi THEN FALSE
    ELSE LET mid == lo + (hi - lo) \div 2
         IN  IF s[mid] = rank THEN TRUE
             ELSE IF s[mid] < rank THEN binary_search(s, rank, mid + 1, hi)
             ELSE binary_search(s, rank, lo, mid)

\* the body of `opc.iter().for_each(|c| ...)`: the filtered iterator over the
\* players ends in for_each, so every player that passes both filters gets c
give_card(pl, c, num_cards, subsets) ==
    [p \in Seats |->
        IF /\ Len(pl[p].hand) < num_cards[p]
           /\ binary_search(subsets[p], c.rank, 1, Len(subsets[p]) + 1)
        THEN [pl[p] EXCEPT !.hand = Append(@, c)]
        ELSE pl[p]]

\* one pass over the shuffled pool
RECURSIVE give_cards(_, _, _, _)
give_cards(pl, opc, num_cards, subsets) ==
    IF Len(opc) = 0 THEN pl
    ELSE give_card(give_cards(pl, Front(opc), num_cards, subsets),
                   opc[Len(opc)], num_cards, subsets)

\* `valid`: did all players get enough cards?
all_dealt(pl, num_cards) == \A p \in Seats : Len(pl[p].hand) = num_cards[p]

RedistAt(pos, shuffled, max_retries) ==
    /\ pos.trick.status = "play"
    /\ game.ptype[pos.trick.round.current_player] = "Computer"
    /\ players = pos.trick.players
    /\ round = pos.trick.round
    /\ match = [rounds |-> << >>, deck |-> pos.deck, match_type |-> pos.match_type,
                n_rounds |-> Len(shuffled) \div NumPlayers, winner |-> "Contra",
                last_round_winner |-> 0]
    /\ hist = [dealt |-> shuffled, last |-> pos.trick.last,
               hand |-> [p \in Seats |-> pos.trick.players[p].hand]]
    /\ trk = [kind |-> "redistribute", max_retries |-> max_retries,
              num_cards |-> [p \in Seats |-> 0], opc |-> << >>,
              subsets |-> [p \in Seats |-> << >>], valid |-> FALSE, c |-> 0]

RedistInit ==
    /\ game \in [deck_type : DeckTypes, ptype : PlayerTypeChoices,
                 n_matches : {1}, matches : {0}, swaps : {SearchSwaps}]
    /\ pc = "redistribute"
    /\ sim = NoSim
    /\ \E shuffled \in Shuffles(get_deck(game.deck_type), SearchSwaps),
          n \in 0 .. (NumPlayers - 1) :
          \E pos \in {position(game.ptype, game.deck_type, shuffled, n)},
             max_retries \in 0 .. MaxRetries :
             RedistAt(pos, shuffled, max_retries)

\* redistribute_unknown_cards up to its loop: num_cards, the drained and
\* sorted pool, the subsets
RedistributeDrain ==
    /\ pc = "redistribute"
    /\ LET opc == other_players_cards(players, round.current_player)
       IN  /\ trk' = [trk EXCEPT !.num_cards = num_cards_of(players),
                                 !.opc = opc,
                                 !.subsets = subsets_of(players, opc),
                                 !.valid = FALSE, !.c = 0]
           /\ players' = cleared_players(players, round.current_player)
    /\ pc' = "retry"
    /\ UNCHANGED <<game, match, round, hist, sim>>

\* one iteration of `while valid == false && c < max_retries`
RedistributeRetry ==
    /\ pc = "retry"
    /\ ~trk.valid
    /\ trk.c < trk.max_retries
    /\ \E opc \in Shuffles(trk.opc, PoolSwaps) :
          \E pl \in {give_cards(cleared_players(players, round.current_player), opc,
                                trk.num_cards, trk.subsets)} :
             /\ players' = pl
             /\ trk' = [trk EXCEPT !.opc = opc, !.c = @ + 1,
                                   !.valid = all_dealt(pl, trk.num_cards)]
    /\ pc' = "retry"
    /\ UNCHANGED <<game, match, round, hist, sim>>

\* the loop is left with valid == true: the function returns
RedistributeReturn ==
    /\ pc = "retry"
    /\ trk.valid
    /\ pc' = "redistributed"
    /\ UNCHANGED <<game, players, match, round, hist, trk, sim>>

\* `if valid == false { panic!("Distribution failed") }`
RedistributeFail ==
    /\ pc = "retry"
    /\ ~trk.valid
    /\ trk.c >= trk.max_retries
    /\ pc' = "panic: Distribution failed"
    /\ UNCHANGED <<game, players, match, round, hist, trk, sim>>

RedistNext ==
    RedistributeDrain \/ RedistributeRetry \/ RedistributeReturn \/ RedistributeFail

SpecRedist == RedistInit /\ [][RedistNext]_vars

(***************************************************************************)
(* Properties of the redistribution (SpecRedist).                          *)
(***************************************************************************)
\* redistribute_unknown_cards has returned
Redistributed == pc = "redistributed"

\* the players other than the one who is to play
Opponents == Seats \ {round.current_player}

\* the serving class of card c is cleared in the serve mask of player p
ClassCleared(p, c) == ~FlagSet(players[p].serve_flags, BitOf(ClassOf(c)))

\* how often card c is in the hands pl of the seats
RECURSIVE HeldCount(_, _, _)
HeldCount(pl, seats, c) ==
    IF seats = {} THEN 0
    ELSE LET p == CHOOSE q \in seats : TRUE
         IN  Cardinality({i \in 1 .. Len(pl[p]) : pl[p][i] = c})
             + HeldCount(pl, seats \ {p}, c)

\* C24: whenever redistribute_unknown_cards returns, every player holds
\* exactly as many cards as before the call, and no opponent holds a card
\* whose serving class (Trump, or the suit of a plain card) is cleared in that
\* opponent's serve mask
C24_RedistributionConstraints ==
    Redistributed =>
        /\ \A p \in Seats : Len(players[p].hand) = Len(hist.hand[p])
        /\ \A p \in Opponents : \A i \in 1 .. Len(players[p].hand) :
              ~ClassCleared(p, players[p].hand[i])

\* the call returned, an opponent with a cleared class holds cards, and a card
\* of that class was in the pool
C24_Witness ==
    /\ Redistributed
    /\ \E p \in Opponents :
          /\ Len(players[p].hand) > 0
          /\ \E q \in Opponents : \E i \in 1 .. Len(hist.hand[q]) :
                ClassCleared(p, hist.hand[q][i])

\* C25: after a successful redistribution the opponents' hands together hold
\* every card of the pool drained from them exactly as often as the pool did:
\* no card duplicated, none lost
C25_PoolCardsAssignedOnce ==
    Redistributed =>
        \A c \in {match.deck[i] : i \in 1 .. Len(match.deck)} :
            HeldCount([p \in Seats |-> players[p].hand], Opponents, c)
                = HeldCount(hist.hand, Opponents, c)

\* C26: a redistribution that finds no valid assignment within max_retries
\* attempts ends in an outcome the caller can handle: the program is not
\* aborted
C26_FailureIsRecoverable == pc # "panic: Distribution failed"

(***************************************************************************)
(* SpecCatalog: DeckBuff::get_deck, DeckBuff::get_card_values and          *)
(* rules::get_deck_for_matchtype called with every deck type and match     *)
(* type, up to MaxCalls calls on one DeckBuff.  game.deck_buff is the      *)
(* buffer, match.deck the deck the last call returned, trk the last call.  *)
(***************************************************************************)
MaxCalls == 2

\* enum DeckType, enum MatchType
CatalogDeckTypes == {"Tournament", "WithNines"}
CatalogMatchTypes == {"Normal", "JackSolo", "QueenSolo", "BestSolo", "HeartsSolo",
                      "SpadesSolo", "CrossSolo", "Fleshless"}

CatalogInit ==
    /\ game = [deck_type |-> "Tournament", ptype |-> [p \in Seats |-> "Human"],
               n_matches |-> 1, matches |-> 0, swaps |-> 0,
               deck_buff |-> NewDeckBuff]
    /\ players = [p \in Seats |-> NewPlayer(p = 0)]
    /\ match = [rounds |-> << >>, deck |-> << >>, match_type |-> "Normal",
                n_rounds |-> 0, winner |-> "Contra", last_round_winner |-> 0]
    /\ round = [played_cards |-> << >>, current_player |-> 0,
                starting_player |-> 0, winner |-> 0]
    /\ hist = [dealt |-> << >>, last |-> NoPlay, reads |-> << >>]
    /\ sim = NoSim
    /\ trk = [kind |-> "catalog", call |-> "none", match_type |-> "Normal",
              deck_type |-> "Tournament", n |-> 0]
    /\ pc = "catalog"

\* the state after a call that returned the deck of `got`
Called(call, match_type, deck_type, deck, deck_buff) ==
    /\ trk' = [trk EXCEPT !.call = call, !.match_type = match_type,
                          !.deck_type = deck_type, !.n = @ + 1]
    /\ match' = [match EXCEPT !.deck = deck]
    /\ game' = [game EXCEPT !.deck_buff = deck_buff]
    /\ UNCHANGED <<players, round, pc, hist, sim>>

\* deck_buff.get_deck(deck_type)
CallGetDeck ==
    /\ pc = "catalog"
    /\ trk.n < MaxCalls
    /\ \E deck_type \in CatalogDeckTypes :
       \E got \in {buffered_get_deck(game.deck_buff, deck_type)} :
          Called("get_deck", trk.match_type, deck_type, got.deck, got.deck_buff)

\* deck_buff.get_card_values(&deck, match_type, deck_type), for the empty deck
\* and for the deck the call before returned
CallGetCardValues ==
    /\ pc = "catalog"
    /\ trk.n < MaxCalls
    /\ \E match_type \in CatalogMatchTypes, deck_type \in CatalogDeckTypes,
          deck \in {<< >>, match.deck} :
       \E got \in {buffered_get_card_values(game.deck_buff, deck, match_type,
                                            deck_type)} :
          Called("get_card_values", match_type, deck_type, got.deck, got.deck_buff)

\* rules::get_deck_for_matchtype(match_type, deck_type)
CallGetDeckForMatchtype ==
    /\ pc = "catalog"
    /\ trk.n < MaxCalls
    /\ \E match_type \in CatalogMatchTypes, deck_type \in CatalogDeckTypes :
          Called("get_deck_for_matchtype", match_type, deck_type,
                 get_deck_for_matchtype(match_type, deck_type), game.deck_buff)

CatalogNext == CallGetDeck \/ CallGetCardValues \/ CallGetDeckForMatchtype

SpecCatalog == CatalogInit /\ [][CatalogNext]_vars

(***************************************************************************)
(* Properties of the catalog functions (SpecCatalog).                      *)
(***************************************************************************)
\* how often the card c is in the deck
CountInDeck(deck, c) == Cardinality({i \in 1 .. Len(deck) : deck[i] = c})

\* the deck holds exactly the rows, each twice
EachRowTwice(deck, rows) ==
    /\ Len(deck) = 2 * Len(rows)
    /\ \A i \in 1 .. Len(rows) : CountInDeck(deck, rows[i]) = 2

\* C28: get_deck_for_matchtype(match_type, deck_type) returns exactly the
\* catalog's cards of the requested deck type, each twice, with the trump
\* flag, rank and eyes of the requested match type, for every deck type and
\* match type
C28_DeckForMatchtype ==
    trk.call = "get_deck_for_matchtype" =>
        EachRowTwice(match.deck,
                     CatalogRows(DeckTypeOrd(trk.deck_type), MatchTypeOrd(trk.match_type)))

(***************************************************************************)
(* SpecConfig: Game::new(m, ..) followed by calls of Game::play_game(n, ..) *)
(* The matches are the elements pushed to game.matches; what a match does   *)
(* to the players is in Spec and SpecGame.  game.overflow_checks is the     *)
(* build: with overflow checks (debug) or without (release).                *)
(***************************************************************************)
\* the largest number of matches passed to Game::new and to play_game
MaxConfigured == 3

\* a - b on usize: with overflow checks an underflow panics, without them the
\* result wraps to 2^64 - (b - a), kept as `wrapped` and the distance b - a
usize_sub(a, b, overflow_checks) ==
    IF a >= b THEN [status |-> "ok", wrapped |-> FALSE, value |-> a - b]
    ELSE IF overflow_checks
    THEN [status |-> "panic: attempt to subtract with overflow",
          wrapped |-> FALSE, value |-> 0]
    ELSE [status |-> "ok", wrapped |-> TRUE, value |-> b - a]

\* Vec::reserve(additional) on a Vec of Box<Match>: a wrapped additional is at
\* least 2^64 - MaxConfigured, so the new capacity overflows usize or exceeds
\* isize::MAX bytes
vec_reserve(additional) ==
    IF additional.wrapped THEN "panic: capacity overflow" ELSE "ok"

\* Game::set_num_matches(n_matches): [status, n_matches]
set_num_matches(g, n_matches) ==
    LET ad_matches == usize_sub(n_matches, g.n_matches, g.overflow_checks)
        reserved   == IF ad_matches.wrapped \/ ad_matches.value > 0
                      THEN vec_reserve(ad_matches) ELSE "ok"
    IN  IF ad_matches.status # "ok"
        THEN [status |-> ad_matches.status, n_matches |-> g.n_matches]
        ELSE IF reserved # "ok"
        THEN [status |-> reserved, n_matches |-> g.n_matches]
        ELSE [status |-> "ok", n_matches |-> n_matches]

\* Game::new(m, deck_type) for m in 0 .. MaxConfigured, in either build
ConfigInit ==
    /\ \E m \in 0 .. MaxConfigured, overflow_checks \in BOOLEAN :
          game = [deck_type |-> "Tournament", ptype |-> [p \in Seats |-> "Human"],
                  n_matches |->
                      set_num_matches([n_matches |-> 0,
                                       overflow_checks |-> overflow_checks],
                                      m).n_matches,
                  matches |-> 0, swaps |-> 0, deck_buff |-> NewDeckBuff,
                  overflow_checks |-> overflow_checks]
    /\ players = [p \in Seats |-> NewPlayer(p = 0)]
    /\ match = [rounds |-> << >>, deck |-> << >>, match_type |-> "Normal",
                n_rounds |-> 0, winner |-> "Contra", last_round_winner |-> 0]
    /\ round = [played_cards |-> << >>, current_player |-> 0,
                starting_player |-> 0, winner |-> 0]
    /\ hist = [dealt |-> << >>, last |-> NoPlay, reads |-> << >>,
               calls |-> 0, configured |-> game.n_matches, n |-> 0, i |-> 0]
    /\ sim = NoSim
    /\ trk = [kind |-> "none", cards |-> << >>, start |-> 0,
              done |-> FALSE, wc |-> "", winner |-> NoWinner]
    /\ pc = "configured"

\* Game::play_game(n, rng) up to its loop: self.set_num_matches(n_matches)
PlayGame ==
    /\ pc \in {"configured", "played"}
    /\ hist.calls < MaxCalls
    /\ \E n \in 0 .. MaxConfigured :
       \E set \in {set_num_matches(game, n)} :
          /\ game' = [game EXCEPT !.n_matches = set.n_matches]
          /\ hist' = [hist EXCEPT !.calls = @ + 1, !.configured = game.n_matches,
                                  !.n = n, !.i = 0]
          /\ pc' = IF set.status = "ok" THEN "play_game" ELSE set.status
    /\ UNCHANGED <<players, match, round, trk, sim>>

\* an iteration of `for _i in 0..self.n_matches`: a match is played and pushed
PlayGameMatch ==
    /\ pc = "play_game"
    /\ hist.i < game.n_matches
    /\ game' = [game EXCEPT !.matches = @ + 1]
    /\ hist' = [hist EXCEPT !.i = @ + 1]
    /\ UNCHANGED <<players, match, round, pc, trk, sim>>

\* the loop is done, play_game returns
PlayGameReturn ==
    /\ pc = "play_game"
    /\ hist.i = game.n_matches
    /\ pc' = "played"
    /\ UNCHANGED <<game, players, match, round, hist, trk, sim>>

ConfigNext == PlayGame \/ PlayGameMatch \/ PlayGameReturn

SpecConfig == ConfigInit /\ [][ConfigNext]_vars

(***************************************************************************)
(* Properties of the configuration of a game (SpecConfig).                 *)
(***************************************************************************)
\* C39: play_game(n) plays exactly n matches for every n >= 0 and every
\* number of matches configured before, also a larger one: set_num_matches
\* does not underflow
C39_PlaysExactlyN ==
    /\ pc \in {"configured", "play_game", "played"}
    /\ pc = "played" => hist.i = hist.n

\* play_game(n) with n at least the number configured before plays n matches
PlaysNWhenNotSmaller ==
    hist.calls > 0 /\ hist.n >= hist.configured =>
        /\ pc \in {"play_game", "played"}
        /\ pc = "played" => hist.i = hist.n

====
